---- MODULE Spec2Model ----
(***************************************************************************)
(* TOF PID producer of Common/TableProducer/PID/pidTOFMerge.cxx:           *)
(* the calibration configuration (TOFCalibConfig), the event-time task     *)
(* (tofEventTime), the Nsigma task (tofPidMerge) with its beta and mass    *)
(* tables, and the signal task (tofSignal).                                *)
(*                                                                         *)
(* Numbers.  Times and errors are reals in the code (float).  The model    *)
(* keeps them exact: a time is a reduced fraction <<n, d>>, an error is    *)
(* kept as its square (a reduced fraction), and an inverse-variance weight *)
(* 1/err^2 is the integer WeightScale/err^2.  Times are counted in units   *)
(* of PsPerUnit picoseconds.  Floating-point rounding is not modelled.     *)
(***************************************************************************)
EXTENDS Integers, Sequences, FiniteSets, TLC

VARIABLES
  pc,                      \* "constructed", "idle", "done", "doneBetaM", "fatal"
  task,                    \* which task this instance is
  cfg,                     \* configurables and metadata, fixed at start-up
  doprocessRun2,           \* PROCESS_SWITCH processRun2
  doprocessRun3,           \* PROCESS_SWITCH processRun3
  mTOFCalibConfig,         \* mutable fields of TOFCalibConfig
  mRespParamsV3,           \* the response parameters of the task
  mComputeEvTimeWithTOF,   \* tofEventTime configurable, rewritten by the autoset
  mComputeEvTimeWithFT0,   \* tofEventTime configurable, rewritten by the autoset
  enableTableTOFEvTime,
  enableTableEvTimeTOFOnly,
  mEnabledParticles,       \* tofPidMerge: enabled species, tiny tables
  mEnabledParticlesFull,   \* tofPidMerge: enabled species, full tables
  batch,                   \* the data frame being processed: tracks and its first BC
  lastCollisionId,         \* local of tofEventTime::processRun3
  tableEvTime,             \* Produces<TOFEvTime> of the current data frame
  tableFlags,              \* Produces<pidEvTimeFlags>
  tableEvTimeTOFOnly,      \* Produces<EvTimeTOFOnly>
  tablePID,                \* species -> rows of the tiny table
  tablePIDFull,            \* species -> rows of the full table
  enableTableTOFSignal,    \* tofSignal: the TOFSignal table is requested
  enableTablepidTOFFlags,  \* tofSignal: the pidTOFFlags table is requested
  tableTOFSignal,          \* tofSignal: Produces<TOFSignal> (member `table`)
  tablepidTOFFlags,        \* tofSignal: Produces<pidTOFFlags> (member `tableFlags`)
  enableTableBeta,         \* tofPidMerge: the pidTOFbeta table is requested
  enableTableMass,         \* tofPidMerge: the pidTOFmass table is requested
  doprocessRun2BetaM,      \* PROCESS_SWITCH processRun2BetaM
  doprocessRun3BetaM,      \* PROCESS_SWITCH processRun3BetaM
  tablePIDBeta,            \* Produces<pidTOFbeta>
  tablePIDTOFMass,         \* Produces<pidTOFmass>
  ccdbFetches,             \* history: what was fetched from the CCDB, in order
  makerCalls,              \* history: collisions the TOF event-time maker ran on
  responseCalls,           \* history: tracks the response model was evaluated on
  warnings,                \* history: number of LOG(warning) lines
  nRefresh                 \* number of calibration refreshes (run changes) so far

vars == <<pc, task, cfg, doprocessRun2, doprocessRun3, mTOFCalibConfig, mRespParamsV3,
          mComputeEvTimeWithTOF, mComputeEvTimeWithFT0, enableTableTOFEvTime,
          enableTableEvTimeTOFOnly, mEnabledParticles, mEnabledParticlesFull, batch,
          lastCollisionId, tableEvTime, tableFlags, tableEvTimeTOFOnly,
          tablePID, tablePIDFull, ccdbFetches, makerCalls, responseCalls, warnings,
          nRefresh, enableTableTOFSignal, enableTablepidTOFFlags, tableTOFSignal,
          tablepidTOFFlags, enableTableBeta, enableTableMass, doprocessRun2BetaM,
          doprocessRun3BetaM, tablePIDBeta, tablePIDTOFMass>>

evTimeVars == <<mComputeEvTimeWithTOF, mComputeEvTimeWithFT0, enableTableTOFEvTime,
                enableTableEvTimeTOFOnly, lastCollisionId, tableEvTime,
                tableFlags, tableEvTimeTOFOnly, makerCalls>>

pidVars == <<mEnabledParticles, mEnabledParticlesFull, tablePID, tablePIDFull,
             responseCalls>>

sigVars == <<enableTableTOFSignal, enableTablepidTOFFlags, tableTOFSignal,
             tablepidTOFFlags>>

betaVars == <<enableTableBeta, enableTableMass, doprocessRun2BetaM, doprocessRun3BetaM,
              tablePIDBeta, tablePIDTOFMass>>

-----------------------------------------------------------------------------
(* Bounds of the model *)

MaxTracks == 3
MaxRefresh == 3
PsPerUnit == 37

-----------------------------------------------------------------------------
(* Exact arithmetic *)

RECURSIVE GCD(_, _)
GCD(a, b) == IF b = 0 THEN a ELSE GCD(b, a % b)

Abs(x) == IF x < 0 THEN -x ELSE x

LCM(a, b) == (a * b) \div GCD(a, b)

\* the fraction n/d (d > 0), reduced
Rat(n, d) ==
  LET g == GCD(Abs(n), d)
  IN  IF n = 0 THEN <<0, 1>> ELSE <<n \div g, d \div g>>

RatLess(x, y) == x[1] * y[2] < y[1] * x[2]

RatAbs(x) == <<Abs(x[1]), x[2]>>

RatInt(n) == <<n, 1>>

RECURSIVE SeqSum(_)
SeqSum(s) == IF s = <<>> THEN 0 ELSE Head(s) + SeqSum(Tail(s))

RECURSIVE SliceFrom(_, _, _)
\* the indices i >= from of the tracks of collision id, in table order
SliceFrom(tracks, id, from) ==
  IF from > Len(tracks) THEN <<>>
  ELSE IF tracks[from].collisionId = id THEN <<from>> \o SliceFrom(tracks, id, from + 1)
       ELSE SliceFrom(tracks, id, from + 1)


-----------------------------------------------------------------------------
(* Calibration store: the CCDB and parameter files as seen by TOFCalibConfig *)

kCollSyspp == 0
kCollSysPbPb == 1
kCollSysXeXe == 2

\* the CCDB object valid at a timestamp: timestamps 1 and 2 share one object
ObjectAt(ts) == IF ts <= 2 THEN 1 ELSE 2

\* ccdb->getSpecific<ParameterCollection>(path, ts): the collection valid at ts,
\* with the passes cfg.ccdbPasses stores in it
CcdbCollection(c, ts) == [obj |-> ObjectAt(ts), passes |-> c.ccdbPasses[ObjectAt(ts)]]

\* paramCollection.loadParamFromFile(file, path)
FileCollection(c) == [obj |-> 0, passes |-> c.filePasses]

\* CollisionSystemType::getCollisionTypeFromGrp(grpo) of the GRPLHCIF object at ts
GetCollisionTypeFromGrp(ts) ==
  IF ts = 1 THEN kCollSyspp ELSE IF ts = 2 THEN kCollSysPbPb ELSE kCollSysXeXe

\* the parameters a collection stores for a pass
GetPars(coll, pass) == [obj |-> coll.obj, pass |-> pass]

\* mRespParamsV3 after construction
DefaultParams ==
  [pars |-> [obj |-> -1, pass |-> ""],
   reso |-> [obj |-> -1, pass |-> "", run3 |-> TRUE],
   momShift |-> [obj |-> -1, pass |-> ""],
   timeShiftPos |-> [src |-> "none", obj |-> -1],
   timeShiftNeg |-> [src |-> "none", obj |-> -1]]

\* retrieveParameters succeeded for `pass`: the three setters of the branch
SetParametrization(p, c, coll, pass) ==
  [p EXCEPT !.pars = GetPars(coll, pass),
            !.reso = [obj |-> coll.obj, pass |-> pass, run3 |-> c.isRun3],
            !.momShift = GetPars(coll, pass)]

\* faulty variant: LOG(fatal) only logs
LogFatalAborts_Continues == FALSE

\* the abort of LOG(fatal): TRUE when the process stops there
LogFatalAborts == TRUE

\* faulty variant: a missing pass keeps the parameters in force, without fallback
LoadParametrization_NoFallback(p, c, coll) ==
  IF c.mReconstructionPass \in coll.passes
    THEN [params |-> [p EXCEPT !.pars = [obj |-> coll.obj, pass |-> c.mReconstructionPass],
                               !.reso = [obj |-> coll.obj, pass |-> c.mReconstructionPass,
                                         run3 |-> c.isRun3],
                               !.momShift = [obj |-> coll.obj,
                                             pass |-> c.mReconstructionPass]],
          warned |-> 0, fatal |-> FALSE]
  ELSE IF c.mFatalOnPassNotAvailable
    THEN [params |-> p, warned |-> 0, fatal |-> TRUE]
  ELSE IF c.mReconstructionPassDefault \notin coll.passes
    THEN [params |-> p, warned |-> 1, fatal |-> TRUE]
  ELSE [params |-> p, warned |-> 1, fatal |-> FALSE]

\* the pass selection shared by initSetup (file and CCDB branch) and processSetup:
\* requested pass, else (unless fatalOnPassNotAvailable) the default pass, else fatal
LoadParametrization(p, c, coll) ==
  IF c.mReconstructionPass \in coll.passes
    THEN [params |-> SetParametrization(p, c, coll, c.mReconstructionPass),
          warned |-> 0, fatal |-> FALSE]
  ELSE IF c.mFatalOnPassNotAvailable
    THEN [params |-> p, warned |-> 0, fatal |-> LogFatalAborts]
  ELSE IF c.mReconstructionPassDefault \notin coll.passes
    THEN [params |-> p, warned |-> 1, fatal |-> LogFatalAborts]
  ELSE [params |-> SetParametrization(p, c, coll, c.mReconstructionPassDefault),
        warned |-> 1, fatal |-> FALSE]

IsFromFile(nameShift) == nameShift = "shift.root"

\* updateTimeShift of initSetup: from a file, or from the CCDB when the response is fixed
InitTimeShift(c, nameShift, old, ts) ==
  IF nameShift = "" THEN [value |-> old, fetch |-> <<>>]
  ELSE IF IsFromFile(nameShift) THEN [value |-> [src |-> "file", obj |-> 0], fetch |-> <<>>]
  ELSE IF ~c.mEnableTimeDependentResponse
    THEN [value |-> [src |-> "ccdb", obj |-> ObjectAt(ts)],
          fetch |-> <<[path |-> nameShift, timestamp |-> ts, run |-> 0]>>]
  ELSE [value |-> old, fetch |-> <<>>]

\* updateTimeShift of processSetup: files are kept, CCDB paths are fetched again
ProcessTimeShift(nameShift, old, ts, run) ==
  IF nameShift = "" THEN [value |-> old, fetch |-> <<>>]
  ELSE IF IsFromFile(nameShift) THEN [value |-> old, fetch |-> <<>>]
  ELSE [value |-> [src |-> "ccdb", obj |-> ObjectAt(ts)],
        fetch |-> <<[path |-> nameShift, timestamp |-> ts, run |-> run]>>]

\* TOFCalibConfig::initSetup
InitSetup(calib, p, c) ==
  LET ts == calib.mTimestamp
      fromFile == c.mParamFileName # ""
      fromCcdb == ~fromFile /\ ~c.mEnableTimeDependentResponse
      coll == IF fromFile THEN FileCollection(c) ELSE CcdbCollection(c, ts)
      load == IF fromFile \/ fromCcdb THEN LoadParametrization(p, c, coll)
              ELSE [params |-> p, warned |-> 0, fatal |-> FALSE]
      f1 == IF fromCcdb THEN <<[path |-> "params", timestamp |-> ts, run |-> 0]>> ELSE <<>>
      pos == InitTimeShift(c, c.mTimeShiftCCDBPathPos, load.params.timeShiftPos, ts)
      neg == InitTimeShift(c, c.mTimeShiftCCDBPathNeg, load.params.timeShiftNeg, ts)
  IN  IF load.fatal
        THEN [calib |-> [calib EXCEPT !.mInitMode = 1], params |-> load.params,
              fetches |-> f1, warned |-> load.warned, fatal |-> TRUE]
        ELSE [calib |-> [calib EXCEPT !.mInitMode = 1],
              params |-> [load.params EXCEPT !.timeShiftPos = pos.value,
                                             !.timeShiftNeg = neg.value],
              fetches |-> f1 \o pos.fetch \o neg.fetch,
              warned |-> load.warned, fatal |-> FALSE]

\* faulty variant: the cache is keyed by the timestamp
SameRunAsLast_ByTimestamp(calib, bc) == calib.mTimestamp = bc.timestamp

\* faulty variant: no cache
SameRunAsLast_Never(calib, bc) == FALSE

\* faulty variant: the cache also expires when the timestamp leaves the validity
\* interval of the stored one
SameRunAsLast_AndValid(calib, bc) ==
  /\ calib.mLastRunNumber = bc.runNumber
  /\ ObjectAt(calib.mTimestamp) = ObjectAt(bc.timestamp)

\* the early return of processSetup: this run number is the last one processed
SameRunAsLast(calib, bc) == calib.mLastRunNumber = bc.runNumber

\* faulty variant: the beam type is read again from the GRP at every new run
BeamTypeUnset_Always(calib) == TRUE

\* "if (mCollisionSystem == -1)": the beam type is still to be read from the GRP
BeamTypeUnset(calib) == calib.mCollisionSystem = -1

\* faulty variant: the parameters are refreshed whatever the option says
TimeDependent_Always(c) == TRUE

\* "if (!mEnableTimeDependentResponse) return;" is passed
TimeDependent(c) == c.mEnableTimeDependentResponse

\* TOFCalibConfig::processSetup
ProcessSetup(calib, p, c, bc) ==
  IF SameRunAsLast(calib, bc)
    THEN [calib |-> calib, params |-> p, fetches |-> <<>>, warned |-> 0, fatal |-> FALSE]
  ELSE
    LET ts == bc.timestamp
        run == bc.runNumber
        autoSys == BeamTypeUnset(calib)
        calib1 == [calib EXCEPT !.mLastRunNumber = run,
                                !.mTimestamp = ts,
                                !.mCollisionSystem =
                                    IF autoSys THEN GetCollisionTypeFromGrp(ts) ELSE @]
        f0 == IF autoSys THEN <<[path |-> "grplhcif", timestamp |-> ts, run |-> run]>>
              ELSE <<>>
        fromCcdb == c.mParamFileName = ""
        load == IF fromCcdb THEN LoadParametrization(p, c, CcdbCollection(c, ts))
                ELSE [params |-> p, warned |-> 0, fatal |-> FALSE]
        f1 == IF fromCcdb THEN <<[path |-> "params", timestamp |-> ts, run |-> run]>>
              ELSE <<>>
        pos == ProcessTimeShift(c.mTimeShiftCCDBPathPos, load.params.timeShiftPos, ts, run)
        neg == ProcessTimeShift(c.mTimeShiftCCDBPathNeg, load.params.timeShiftNeg, ts, run)
    IN  IF ~TimeDependent(c)
          THEN [calib |-> calib1, params |-> p, fetches |-> f0, warned |-> 0,
                fatal |-> FALSE]
        ELSE IF load.fatal
          THEN [calib |-> calib1, params |-> load.params, fetches |-> f0 \o f1,
                warned |-> load.warned, fatal |-> TRUE]
        ELSE [calib |-> calib1,
              params |-> [load.params EXCEPT !.timeShiftPos = pos.value,
                                             !.timeShiftNeg = neg.value],
              fetches |-> f0 \o f1 \o pos.fetch \o neg.fetch,
              warned |-> load.warned, fatal |-> FALSE]

\* TOFCalibConfig::init and inheritFromBaseTask: the options copied at start-up
CalibAfterConstruction(c) ==
  [mLastRunNumber |-> -1, mInitMode |-> 0, mTimestamp |-> c.cfgTimestamp,
   mCollisionSystem |-> c.cfgCollisionSystem]

-----------------------------------------------------------------------------
(* Event time: constants, inputs and the TOF event-time maker *)

\* faulty variant: the bias of the track itself is kept
kRemoveTOFEvTimeBias_Off == FALSE

kRemoveTOFEvTimeBias == TRUE
kDiamond == 6
\* kDiamond * 33.356409f ps, in units of PsPerUnit ps
kErrDiamond == (kDiamond * 33356409) \div (1000000 * PsPerUnit)
\* the error 999.f ps of the rows without estimate, in units of PsPerUnit ps
kErrNoEvTime == 999 \div PsPerUnit

\* the errors that occur in the inputs (track resolutions, FT0 resolutions)
InputErrors == {2, 3, 4, 6}

RECURSIVE LCMOfSquares(_)
LCMOfSquares(S) ==
  IF S = {} THEN 1
  ELSE LET e == CHOOSE x \in S : TRUE
       IN  LCM(e * e, LCMOfSquares(S \ {e}))

\* the common denominator of all inverse-variance weights
WeightScale == LCMOfSquares(InputErrors \cup {kErrDiamond, kErrNoEvTime})

\* 1.f / (err * err)
WeightOf(err) == WeightScale \div (err * err)

kWeightDiamond == WeightOf(kErrDiamond)

\* the weight of an error given by its square <<n, d>>
WeightOfErr2(err2) == (WeightScale \div err2[1]) * err2[2]

\* std::sqrt(1. / sumOfWeights), squared
Err2OfWeight(w) == Rat(WeightScale, w)

Err2(err) == <<err * err, 1>>

\* the collisions of a data frame: sel8, the FT0 match and its corrected time (in
\* units of PsPerUnit ps, i.e. t0AC() * 1000.f and t0resolution() * 1000.f)
Collisions ==
  <<[sel8 |-> TRUE,  has_foundFT0 |-> TRUE,  t0ACValid |-> TRUE,  t0AC |-> 2,
     t0resolution |-> 3, collisionTime |-> 1, collisionTimeRes |-> 2],
    [sel8 |-> FALSE, has_foundFT0 |-> TRUE,  t0ACValid |-> FALSE, t0AC |-> 9,
     t0resolution |-> 3, collisionTime |-> -2, collisionTimeRes |-> 4],
    [sel8 |-> TRUE,  has_foundFT0 |-> FALSE, t0ACValid |-> FALSE, t0AC |-> 0,
     t0resolution |-> 6, collisionTime |-> 3, collisionTimeRes |-> 6],
    [sel8 |-> FALSE, has_foundFT0 |-> TRUE,  t0ACValid |-> TRUE,  t0AC |-> 4,
     t0resolution |-> 2, collisionTime |-> 2, collisionTimeRes |-> 3]>>

\* collision ids are 0-based in the tables
Collision(id) == Collisions[id + 1]

CollisionIds == 0 .. (Len(Collisions) - 1)

\* the kinds of track of the inputs; p in units of 0.1 GeV/c; tofTime and tofSigma
\* are the event time a track alone gives (signal minus expected time) and its
\* resolution, as the event-time maker computes them from the response
TrackKinds ==
  {[hasTOF |-> TRUE, hasITS |-> TRUE, hasTPC |-> TRUE, p |-> 10, trackType |-> "TrackIU",
    tofTime |-> 4, tofSigma |-> 2],
   [hasTOF |-> TRUE, hasITS |-> TRUE, hasTPC |-> TRUE, p |-> 15, trackType |-> "TrackIU",
    tofTime |-> -6, tofSigma |-> 4],
   [hasTOF |-> TRUE, hasITS |-> TRUE, hasTPC |-> TRUE, p |-> 5, trackType |-> "TrackIU",
    tofTime |-> 8, tofSigma |-> 2]}

\* a track of a data frame: a kind and its collision (-1: not assigned)
TracksOf(collIds) ==
  {[hasTOF |-> k.hasTOF, hasITS |-> k.hasITS, hasTPC |-> k.hasTPC, p |-> k.p,
    trackType |-> k.trackType, tofTime |-> k.tofTime, tofSigma |-> k.tofSigma,
    collisionId |-> c] : k \in TrackKinds, c \in collIds}

TrackTables(trackSet) == UNION {[1 .. n -> trackSet] : n \in 0 .. MaxTracks}

has_collision(t) == t.collisionId >= 0

\* filterForTOFEventTime, with trackSampleMinMomentum and trackSampleMaxMomentum as
\* tofEventTime::init sets them
filterForTOFEventTime(c, tr) ==
  /\ tr.hasTOF
  /\ tr.p > c.minMomentum /\ tr.p < c.maxMomentum
  /\ tr.hasITS
  /\ tr.hasTPC
  /\ tr.trackType \in {"Track", "TrackIU"}

\* tracks.sliceBy(perCollision, id): the positions of the tracks of a collision
SliceBy(tracks, id) == SliceFrom(tracks, id, 1)

RECURSIVE SampleSums(_, _, _, _)
\* sum of weights, weighted sum of times and size of the calibration sample
SampleSums(c, tracks, idxs, acc) ==
  IF idxs = <<>> THEN acc
  ELSE LET t == tracks[Head(idxs)]
           w == WeightOf(t.tofSigma)
       IN  IF filterForTOFEventTime(c, t)
             THEN SampleSums(c, tracks, Tail(idxs),
                             [sumW |-> acc.sumW + w, sumWX |-> acc.sumWX + w * t.tofTime,
                              n |-> acc.n + 1])
             ELSE SampleSums(c, tracks, Tail(idxs), acc)

\* evTimeMakerForTracks: the inverse-variance weighted mean over the calibration
\* sample of a collision; the diamond default when the sample is empty
evTimeMakerForTracks(c, tracks, idxs) ==
  LET s == SampleSums(c, tracks, idxs, [sumW |-> 0, sumWX |-> 0, n |-> 0])
  IN  [mEventTime |-> IF s.n = 0 THEN <<0, 1>> ELSE Rat(s.sumWX, s.sumW),
       mEventTimeError2 |-> IF s.n = 0 THEN Err2(kErrDiamond) ELSE Err2OfWeight(s.sumW),
       mEventTimeMultiplicity |-> s.n,
       sumW |-> s.sumW, sumWX |-> s.sumWX]

\* eventTimeContainer::removeBias: the event time of the sample without the track
\* itself; the diamond default when no other track is left
removeBias(c, maker, trk) ==
  IF ~filterForTOFEventTime(c, trk)
    THEN [time |-> maker.mEventTime, err2 |-> maker.mEventTimeError2, n |-> maker.mEventTimeMultiplicity]
  ELSE LET w == WeightOf(trk.tofSigma)
           restW == maker.sumW - w
           restWX == maker.sumWX - w * trk.tofTime
       IN  IF maker.mEventTimeMultiplicity <= 1
             THEN [time |-> <<0, 1>>, err2 |-> Err2(kErrDiamond), n |-> 0]
             ELSE [time |-> Rat(restWX, restW), err2 |-> Err2OfWeight(restW),
                   n |-> maker.mEventTimeMultiplicity - 1]

-----------------------------------------------------------------------------
(* tofEventTime: the rows of one track *)

\* the TOF estimate of a track: after removeBias, or the maker's when the bias is kept
TOFEstimate(c, maker, trk) ==
  IF kRemoveTOFEvTimeBias THEN removeBias(c, maker, trk)
  ELSE [time |-> maker.mEventTime, err2 |-> maker.mEventTimeError2,
        n |-> maker.mEventTimeMultiplicity]

\* faulty variant: the cutoff on the magnitude is not applied
TOFAccepted_NoCutoff(c, est) == RatLess(est.err2, Err2(kErrDiamond))

\* t0TOF[1] < kErrDiamond && (maxEvTimeTOF <= 0 || std::abs(t0TOF[0]) < maxEvTimeTOF)
TOFAccepted(c, est) ==
  /\ RatLess(est.err2, Err2(kErrDiamond))
  /\ (c.maxEvTimeTOF <= 0 \/ RatLess(RatAbs(est.time), RatInt(c.maxEvTimeTOF)))

\* the weight and weighted time the TOF estimate adds in TOF+FT0 mode
TOFTerm(c, est) ==
  IF TOFAccepted(c, est)
    THEN LET w == WeightOfErr2(est.err2)
         IN  [weight |-> w, wtime |-> (est.time[1] * w) \div est.time[2],
              flags |-> {"EvTimeTOF"}]
    ELSE [weight |-> 0, wtime |-> 0, flags |-> {}]

\* the weight and weighted time the FT0 block adds in TOF+FT0 mode: t0AC keeps its
\* default {0, 999} unless t0ACValid, and is added whenever the FT0 is found
FT0Term(collision) ==
  IF collision.has_foundFT0
    THEN LET valid == collision.t0ACValid
             t0 == IF valid THEN collision.t0AC ELSE 0
             er == IF valid THEN collision.t0resolution ELSE kErrNoEvTime
         IN  [weight |-> WeightOf(er), wtime |-> t0 * WeightOf(er),
              flags |-> IF valid THEN {"EvTimeT0AC"} ELSE {}]
    ELSE [weight |-> 0, wtime |-> 0, flags |-> {}]

\* faulty variant: only a sum of weights of zero is guarded
BelowDiamondWeight_ZeroOnly(sumOfWeights) == sumOfWeights <= 0

\* sumOfWeights < kWeightDiamond
BelowDiamondWeight(sumOfWeights) == sumOfWeights < kWeightDiamond

\* one pass of the inner loop of the TOF+FT0 mode, for track j of the data frame
RowsTOFFT0(c, maker, collision, trk, j) ==
  LET est == TOFEstimate(c, maker, trk)
      tof == TOFTerm(c, est)
      ft0 == FT0Term(collision)
      sum == tof.weight + ft0.weight
      low == BelowDiamondWeight(sum)
      eventTime == IF low THEN 0 ELSE tof.wtime + ft0.wtime
      sumOfWeights == IF low THEN kWeightDiamond ELSE sum
  IN  [flags |-> [trk |-> j, flags |-> IF low THEN {} ELSE tof.flags \cup ft0.flags],
       evTime |-> [trk |-> j, time |-> Rat(eventTime, sumOfWeights),
                   err2 |-> Err2OfWeight(sumOfWeights)],
       tofOnly |-> [trk |-> j, used |-> filterForTOFEventTime(c, trk), time |-> est.time,
                    err2 |-> est.err2, mult |-> maker.mEventTimeMultiplicity]]

\* faulty variant: a rejected estimate is written as it is, without its flag
RowsTOF_KeepsRejected(c, maker, trk, j) ==
  LET est == TOFEstimate(c, maker, trk)
  IN  [flags |-> [trk |-> j, flags |-> IF TOFAccepted(c, est) THEN {"EvTimeTOF"} ELSE {}],
       evTime |-> [trk |-> j, time |-> est.time, err2 |-> est.err2],
       tofOnly |-> [trk |-> j, used |-> filterForTOFEventTime(c, trk), time |-> est.time,
                    err2 |-> est.err2, mult |-> maker.mEventTimeMultiplicity]]

\* one pass of the inner loop of the TOF-only mode
RowsTOF(c, maker, trk, j) ==
  LET est == TOFEstimate(c, maker, trk)
      ok == TOFAccepted(c, est)
      et == IF ok THEN est.time ELSE <<0, 1>>
      erret == IF ok THEN est.err2 ELSE Err2(kErrDiamond)
  IN  [flags |-> [trk |-> j, flags |-> IF ok THEN {"EvTimeTOF"} ELSE {}],
       evTime |-> [trk |-> j, time |-> et, err2 |-> erret],
       tofOnly |-> [trk |-> j, used |-> filterForTOFEventTime(c, trk), time |-> et,
                    err2 |-> erret, mult |-> maker.mEventTimeMultiplicity]]

\* faulty variant: the rows without estimate carry the diamond error
RowsNoEvTime_Diamond(j) ==
  [flags |-> [trk |-> j, flags |-> {}],
   evTime |-> [trk |-> j, time |-> <<0, 1>>, err2 |-> Err2(kErrDiamond)],
   tofOnly |-> [trk |-> j, used |-> FALSE, time |-> <<0, 1>>, err2 |-> <<0, 1>>,
                mult |-> -1]]

\* tableFlags(0); tableEvTime(0.f, 999.f); tableEvTimeTOFOnly(0, 0.f, 0.f, -1)
RowsNoEvTime(j) ==
  [flags |-> [trk |-> j, flags |-> {}],
   evTime |-> [trk |-> j, time |-> <<0, 1>>, err2 |-> Err2(kErrNoEvTime)],
   tofOnly |-> [trk |-> j, used |-> FALSE, time |-> <<0, 1>>, err2 |-> <<0, 1>>,
                mult |-> -1]]

\* the body of the FT0-only loop after the tableEvTimeTOFOnly row
RowsFT0(collision, j) ==
  IF collision.has_foundFT0 /\ collision.t0ACValid
    THEN [flags |-> [trk |-> j, flags |-> {"EvTimeT0AC"}],
          evTime |-> [trk |-> j, time |-> <<collision.t0AC, 1>>,
                      err2 |-> Err2(collision.t0resolution)],
          tofOnly |-> RowsNoEvTime(j).tofOnly]
    ELSE RowsNoEvTime(j)

\* !t.has_collision() || (sel8TOFEvTime && !collision.sel8())
NoCollisionOrNotSel8(c, t) ==
  ~has_collision(t) \/ (c.sel8TOFEvTime /\ ~Collision(t.collisionId).sel8)

\* faulty variant: the collision of the previous track is not remembered
AlreadyInTable_Never(t, last) == FALSE

\* t.collisionId() == lastCollisionId: the rows of this collision are already written
AlreadyInTable(t, last) == t.collisionId = last

\* the rows of all the tracks of a collision (the inner loop), per table
InnerLoop(rows) ==
  [flags |-> [k \in DOMAIN rows |-> rows[k].flags],
   evTime |-> [k \in DOMAIN rows |-> rows[k].evTime],
   tofOnly |-> [k \in DOMAIN rows |-> rows[k].tofOnly]]

-----------------------------------------------------------------------------
(* tofEventTime: init and the process functions *)

\* tofEventTime::init
TofEventTimeInit ==
  /\ pc = "constructed"
  /\ task = "tofEventTime"
  /\ LET eTOF == "TOFEvTime" \in cfg.requiredTables
         eOnly == "EvTimeTOFOnly" \in cfg.requiredTables
         auto == cfg.mAutoSetProcessFunctions /\ cfg.isFullyDefined
         r3 == IF auto /\ cfg.isRun3 THEN TRUE ELSE doprocessRun3
         r2 == IF auto /\ ~cfg.isRun3 THEN TRUE ELSE doprocessRun2
         fatalSwitch == \/ cfg.isFullyDefined /\ cfg.isRun3 /\ r2
                        \/ cfg.isFullyDefined /\ ~cfg.isRun3 /\ r3
                        \/ r2 /\ r3
         inherited == [mTOFCalibConfig EXCEPT !.mInitMode = 2]
         setup == InitSetup(inherited, mRespParamsV3, cfg)
     IN  /\ enableTableTOFEvTime' = eTOF
         /\ enableTableEvTimeTOFOnly' = eOnly
         /\ IF ~eTOF /\ ~eOnly
              THEN /\ pc' = "idle"
                   /\ mTOFCalibConfig' = inherited
                   /\ UNCHANGED <<doprocessRun2, doprocessRun3, mRespParamsV3, ccdbFetches,
                                  warnings>>
            ELSE IF fatalSwitch /\ LogFatalAborts
              THEN /\ pc' = "fatal"
                   /\ doprocessRun2' = r2
                   /\ doprocessRun3' = r3
                   /\ mTOFCalibConfig' = inherited
                   /\ UNCHANGED <<mRespParamsV3, ccdbFetches, warnings>>
            ELSE /\ pc' = IF setup.fatal THEN "fatal" ELSE "idle"
                 /\ doprocessRun2' = r2
                 /\ doprocessRun3' = r3
                 /\ mTOFCalibConfig' = setup.calib
                 /\ mRespParamsV3' = setup.params
                 /\ ccdbFetches' = ccdbFetches \o setup.fetches
                 /\ warnings' = warnings + setup.warned
  /\ UNCHANGED <<task, cfg, mComputeEvTimeWithTOF, mComputeEvTimeWithFT0, batch,
                 lastCollisionId, tableEvTime, tableFlags, tableEvTimeTOFOnly, makerCalls,
                 nRefresh>>
  /\ UNCHANGED <<pidVars, sigVars, betaVars>>

\* the end of a data frame: the framework takes the filled tables over, and the
\* Produces cursors and the locals of the process function start afresh
FrameDone ==
  /\ \/ pc = "doneBetaM"
     \/ pc = "done" /\ ~(task = "tofPidMerge" /\ (doprocessRun2BetaM \/ doprocessRun3BetaM))
  /\ pc' = "idle"
  /\ batch' = [tracks |-> <<>>, bc |-> [runNumber |-> 0, timestamp |-> 0]]
  /\ lastCollisionId' = -1
  /\ tableEvTime' = <<>>
  /\ tableFlags' = <<>>
  /\ tableEvTimeTOFOnly' = <<>>
  /\ tablePID' = [id \in DOMAIN tablePID |-> <<>>]
  /\ tablePIDFull' = [id \in DOMAIN tablePIDFull |-> <<>>]
  /\ makerCalls' = <<>>
  /\ responseCalls' = {}
  /\ tableTOFSignal' = <<>>
  /\ tablepidTOFFlags' = <<>>
  /\ tablePIDBeta' = <<>>
  /\ tablePIDTOFMass' = <<>>
  /\ UNCHANGED <<task, cfg, doprocessRun2, doprocessRun3, mTOFCalibConfig, mRespParamsV3,
                 mComputeEvTimeWithTOF, mComputeEvTimeWithFT0, enableTableTOFEvTime,
                 enableTableEvTimeTOFOnly, mEnabledParticles, mEnabledParticlesFull,
                 ccdbFetches, warnings, nRefresh, enableTableTOFSignal,
                 enableTablepidTOFFlags, enableTableBeta, enableTableMass,
                 doprocessRun2BetaM, doprocessRun3BetaM>>

\* faulty variant: PbPb resolves the options left at auto as pp does
AutoSetMode_PbPbAsPp(tof, ft0, sys) ==
  IF tof = -1 \/ ft0 = -1
    THEN IF sys = kCollSyspp \/ sys = kCollSysPbPb
           THEN [tof |-> IF tof = -1 THEN 1 ELSE tof, ft0 |-> IF ft0 = -1 THEN 1 ELSE ft0,
                 fatal |-> FALSE]
         ELSE [tof |-> tof, ft0 |-> ft0, fatal |-> TRUE]
    ELSE [tof |-> tof, ft0 |-> ft0, fatal |-> FALSE]

\* faulty variant: a system that is neither pp nor PbPb is resolved as pp
AutoSetMode_DefaultAsPp(tof, ft0, sys) ==
  IF tof = -1 \/ ft0 = -1
    THEN IF sys = kCollSysPbPb
           THEN [tof |-> IF tof = -1 THEN 1 ELSE tof, ft0 |-> IF ft0 = -1 THEN 0 ELSE ft0,
                 fatal |-> FALSE]
         ELSE [tof |-> IF tof = -1 THEN 0 ELSE tof, ft0 |-> IF ft0 = -1 THEN 1 ELSE ft0,
               fatal |-> FALSE]
    ELSE [tof |-> tof, ft0 |-> ft0, fatal |-> FALSE]

\* the autoset of the event-time mode from the collision system
AutoSetMode(tof, ft0, sys) ==
  IF tof = -1 \/ ft0 = -1
    THEN IF sys = kCollSyspp
           THEN [tof |-> IF tof = -1 THEN 0 ELSE tof, ft0 |-> IF ft0 = -1 THEN 1 ELSE ft0,
                 fatal |-> FALSE]
         ELSE IF sys = kCollSysPbPb
           THEN [tof |-> IF tof = -1 THEN 1 ELSE tof, ft0 |-> IF ft0 = -1 THEN 0 ELSE ft0,
                 fatal |-> FALSE]
         ELSE [tof |-> tof, ft0 |-> ft0, fatal |-> LogFatalAborts]
    ELSE [tof |-> tof, ft0 |-> ft0, fatal |-> FALSE]

\* the three branches of processRun3; anything else is the fatal of the last else
ValidMode(tof, ft0) == <<tof, ft0>> \in {<<1, 1>>, <<1, 0>>, <<0, 1>>}

\* a data frame may start when its run is the current one or a refresh is left
MayStart(bc) == SameRunAsLast(mTOFCalibConfig, bc) \/ nRefresh < MaxRefresh

\* the tables and locals of processRun3 at the start of the track loop
LoopStart ==
  [flags |-> <<>>, evTime |-> <<>>, tofOnly |-> <<>>, lastCollisionId |-> -1,
   makerCalls |-> <<>>]

\* faulty variant: the row of the event-time table is left out
Append3_FlagsOnly(st, rows) ==
  [st EXCEPT !.flags = @ \o rows.flags,
             !.tofOnly = IF enableTableEvTimeTOFOnly THEN @ \o rows.tofOnly ELSE @]

\* tableFlags(..), tableEvTime(..) and, when enabled, tableEvTimeTOFOnly(..)
Append3(st, rows) ==
  [st EXCEPT !.flags = @ \o rows.flags,
             !.evTime = @ \o rows.evTime,
             !.tofOnly = IF enableTableEvTimeTOFOnly THEN @ \o rows.tofOnly ELSE @]

One(rows) == [flags |-> <<rows.flags>>, evTime |-> <<rows.evTime>>, tofOnly |-> <<rows.tofOnly>>]

\* one pass of the outer loop of the TOF+FT0 and TOF-only modes, on track i
EvTimeTOFLoop(withFT0, tracks, i, st) ==
  LET t == tracks[i]
  IN  IF NoCollisionOrNotSel8(cfg, t) THEN Append3(st, One(RowsNoEvTime(i)))
      ELSE IF AlreadyInTable(t, st.lastCollisionId) THEN st
      ELSE LET idxs == SliceBy(tracks, t.collisionId)
               maker == evTimeMakerForTracks(cfg, tracks, idxs)
               rows == [k \in 1 .. Len(idxs) |->
                          LET trk == tracks[idxs[k]]
                          IN  IF withFT0
                                THEN RowsTOFFT0(cfg, maker, Collision(trk.collisionId), trk,
                                                idxs[k])
                                ELSE RowsTOF(cfg, maker, trk, idxs[k])]
           IN  [Append3(st, InnerLoop(rows)) EXCEPT
                  !.lastCollisionId = t.collisionId,
                  !.makerCalls = Append(@, t.collisionId)]

\* one pass of the loop of the FT0-only mode, on track i
EvTimeFT0Loop(tracks, i, st) ==
  LET t == tracks[i]
  IN  Append3(st, One(IF ~has_collision(t) THEN RowsNoEvTime(i)
                      ELSE RowsFT0(Collision(t.collisionId), i)))

RECURSIVE EvTimeTrackLoop(_, _, _, _, _)
\* "for (auto const& t : tracks)" of the branch of processRun3 the mode selects,
\* from track i on
EvTimeTrackLoop(tof, ft0, tracks, i, st) ==
  IF i > Len(tracks) THEN st
  ELSE EvTimeTrackLoop(tof, ft0, tracks, i + 1,
                       IF tof = 1 THEN EvTimeTOFLoop(ft0 = 1, tracks, i, st)
                       ELSE EvTimeFT0Loop(tracks, i, st))

\* tofEventTime::processRun3: reserve, processSetup, mode autoset, track loop
EvTimeProcessRun3(b) ==
  /\ pc = "idle"
  /\ task = "tofEventTime"
  /\ doprocessRun3
  /\ MayStart(b.bc)
  /\ batch' = b
  /\ IF ~enableTableTOFEvTime
       THEN /\ pc' = "done"
            /\ UNCHANGED <<mTOFCalibConfig, mRespParamsV3, ccdbFetches, warnings, nRefresh>>
            /\ UNCHANGED evTimeVars
       ELSE LET setup == ProcessSetup(mTOFCalibConfig, mRespParamsV3, cfg, b.bc)
                mode == AutoSetMode(mComputeEvTimeWithTOF, mComputeEvTimeWithFT0,
                                    setup.calib.mCollisionSystem)
                fatal == \/ setup.fatal
                         \/ mode.fatal
                         \/ ~ValidMode(mode.tof, mode.ft0) /\ LogFatalAborts
                st == IF fatal \/ ~ValidMode(mode.tof, mode.ft0) THEN LoopStart
                      ELSE EvTimeTrackLoop(mode.tof, mode.ft0, b.tracks, 1, LoopStart)
            IN  /\ mTOFCalibConfig' = setup.calib
                /\ mRespParamsV3' = setup.params
                /\ ccdbFetches' = ccdbFetches \o setup.fetches
                /\ warnings' = warnings + setup.warned
                /\ nRefresh' = IF SameRunAsLast(mTOFCalibConfig, b.bc) THEN nRefresh
                               ELSE nRefresh + 1
                /\ tableEvTime' = st.evTime
                /\ tableFlags' = st.flags
                /\ tableEvTimeTOFOnly' = st.tofOnly
                /\ makerCalls' = st.makerCalls
                /\ lastCollisionId' = st.lastCollisionId
                /\ UNCHANGED <<enableTableTOFEvTime, enableTableEvTimeTOFOnly>>
                /\ mComputeEvTimeWithTOF' = IF setup.fatal THEN mComputeEvTimeWithTOF
                                            ELSE mode.tof
                /\ mComputeEvTimeWithFT0' = IF setup.fatal THEN mComputeEvTimeWithFT0
                                            ELSE mode.ft0
                /\ pc' = IF fatal THEN "fatal" ELSE "done"
  /\ UNCHANGED <<task, cfg, doprocessRun2, doprocessRun3>>
  /\ UNCHANGED <<pidVars, sigVars, betaVars>>

\* a row of tofEventTime::processRun2
RowsRun2(t, j) ==
  IF ~has_collision(t) THEN RowsNoEvTime(j)
  ELSE [flags |-> [trk |-> j, flags |-> {"EvTimeTOF"}],
        evTime |-> [trk |-> j, time |-> <<Collision(t.collisionId).collisionTime, 1>>,
                    err2 |-> Err2(Collision(t.collisionId).collisionTimeRes)],
        tofOnly |-> RowsNoEvTime(j).tofOnly]

\* tofEventTime::processRun2
EvTimeProcessRun2(b) ==
  /\ pc = "idle"
  /\ task = "tofEventTime"
  /\ doprocessRun2
  /\ batch' = b
  /\ pc' = "done"
  /\ IF ~enableTableTOFEvTime
       THEN UNCHANGED <<tableFlags, tableEvTime>>
       ELSE /\ tableFlags' = [k \in 1 .. Len(b.tracks) |-> RowsRun2(b.tracks[k], k).flags]
            /\ tableEvTime' = [k \in 1 .. Len(b.tracks) |-> RowsRun2(b.tracks[k], k).evTime]
  /\ UNCHANGED <<task, cfg, doprocessRun2, doprocessRun3, mTOFCalibConfig, mRespParamsV3,
                 mComputeEvTimeWithTOF, mComputeEvTimeWithFT0, enableTableTOFEvTime,
                 enableTableEvTimeTOFOnly, lastCollisionId, tableEvTimeTOFOnly,
                 makerCalls, ccdbFetches, warnings, nRefresh>>
  /\ UNCHANGED <<pidVars, sigVars, betaVars>>

-----------------------------------------------------------------------------
(* tofPidMerge: species tables, response and process functions *)

kIdxEl == 0
kIdxMu == 1
kIdxPi == 2
kIdxKa == 3
kIdxPr == 4
kIdxDe == 5
kIdxTr == 6
kIdxHe == 7
kIdxAl == 8

\* the loop "for (int i = 0; i < nSpecies; i++)" of init
Species == kIdxEl .. kIdxAl

EmptyPidTables == [id \in Species |-> <<>>]

\* the tracks of tofPidMerge: signal, event time and expected pion time in ps
PidTrackKinds ==
  {[tofSignal |-> 20000, tofEvTime |-> 100, tofExpTimePi |-> 19800],
   [tofSignal |-> 15000, tofEvTime |-> 0, tofExpTimePi |-> 15400]}

PidTracksOf(collIds) ==
  {[tofSignal |-> k.tofSignal, tofEvTime |-> k.tofEvTime, tofExpTimePi |-> k.tofExpTimePi,
    collisionId |-> c] : k \in PidTrackKinds, c \in collIds}

\* enableFlagIfTableRequired: a flag left at -1 follows the workflow, 1 stays on
enableFlagIfTableRequired(required, f) ==
  IF f > 0 THEN 1 ELSE IF required /\ f < 0 THEN 1 ELSE f

RECURSIVE EnabledFrom_Reversed(_, _, _)
\* faulty variant: the enabled species are pushed at the front of the list
EnabledFrom_Reversed(i, required, flags) ==
  IF i > kIdxAl THEN <<>>
  ELSE IF enableFlagIfTableRequired(i \in required, flags[i]) = 1
         THEN EnabledFrom_Reversed(i + 1, required, flags) \o <<i>>
         ELSE EnabledFrom_Reversed(i + 1, required, flags)

RECURSIVE EnabledFrom(_, _, _)
\* the push_back loop of init: the species whose flag came out 1, in index order
EnabledFrom(i, required, flags) ==
  IF i > kIdxAl THEN <<>>
  ELSE IF enableFlagIfTableRequired(i \in required, flags[i]) = 1
         THEN <<i>> \o EnabledFrom(i + 1, required, flags)
         ELSE EnabledFrom(i + 1, required, flags)

\* ExpTimes::GetExpectedSignal: the expected time of a species, in ps
GetExpectedSignal(trk, id) == trk.tofExpTimePi + 50 * (id - kIdxPi)

\* ExpTimes::GetExpectedSigma: the resolution from the parameters in force, in ps
GetExpectedSigma(params, trk, id) == 70 + 10 * params.reso.obj + 5 * Abs(id - kIdxPi)

\* ExpTimes::GetSeparation(params, trk, resolution)
GetSeparationWith(trk, id, resolution) ==
  Rat(trk.tofSignal - trk.tofEvTime - GetExpectedSignal(trk, id), resolution)

\* ExpTimes::GetSeparation(params, trk)
GetSeparation(params, trk, id) ==
  GetSeparationWith(trk, id, GetExpectedSigma(params, trk, id))

\* pidtof_tiny::binning::packInTable: the bin of width 0.05 of an Nsigma, saturating
\* at -127 and 127 outside (-6.35, 6.35)
packInTable(v) ==
  IF ~RatLess(<<-635, 100>>, v) THEN -127
  ELSE IF ~RatLess(v, <<635, 100>>) THEN 127
  ELSE IF v[1] >= 0 THEN (40 * v[1] + v[2]) \div (2 * v[2])
  ELSE -((40 * (-v[1]) + v[2]) \div (2 * v[2]))

\* the value makeTableEmpty stores: -999.f
kNotComputed == -999

\* makeTableEmpty(id, false) and makeTableEmpty(id, true), for track j
EmptyTinyRow(j) ==
  [trk |-> j, nsigma |-> <<kNotComputed, 1>>, bin |-> packInTable(<<kNotComputed, 1>>)]

EmptyFullRow(j) ==
  [trk |-> j, resolution |-> <<kNotComputed, 1>>, nsigma |-> <<kNotComputed, 1>>]

\* the case of the tiny-table switch for species id
TinyRow(params, trk, id, j) ==
  LET nsigma == GetSeparation(params, trk, id)
  IN  [trk |-> j, nsigma |-> nsigma, bin |-> packInTable(nsigma)]

\* faulty variant: the Nsigma of every species is computed with the resolution of
\* the electron
FullRow_StaleResolution(params, trk, id, j) ==
  [trk |-> j, resolution |-> <<GetExpectedSigma(params, trk, id), 1>>,
   nsigma |-> GetSeparationWith(trk, id, GetExpectedSigma(params, trk, kIdxEl))]

\* the case of the full-table switch for species id; the pion case calls
\* GetSeparation without the resolution of the record
FullRow(params, trk, id, j) ==
  LET resolution == GetExpectedSigma(params, trk, id)
      nsigma == IF id = kIdxPi THEN GetSeparation(params, trk, id)
                ELSE GetSeparationWith(trk, id, resolution)
  IN  [trk |-> j, resolution |-> <<resolution, 1>>, nsigma |-> nsigma]

\* faulty variant: the response is evaluated on every track
PidSkipsTrack_Never(trk) == FALSE

\* "if (!trk.has_collision())" of the track loop of tofPidMerge
PidSkipsTrack(trk) == ~has_collision(trk)

\* faulty variant: every species counts as enabled
InList_Always(id, list) == TRUE

RECURSIVE InList(_, _)
\* "for (auto const& pidId : mEnabledParticles)": species id is looped on
InList(id, list) ==
  IF list = <<>> THEN FALSE ELSE Head(list) = id \/ InList(id, Tail(list))

\* the rows the track loop appends to the table of species id, over all the tracks
PidRows(params, tracks, enabled, id, fullTable) ==
  IF ~InList(id, enabled) THEN <<>>
  ELSE [j \in 1 .. Len(tracks) |->
          IF PidSkipsTrack(tracks[j])
            THEN IF fullTable THEN EmptyFullRow(j) ELSE EmptyTinyRow(j)
          ELSE IF fullTable THEN FullRow(params, tracks[j], id, j)
          ELSE TinyRow(params, tracks[j], id, j)]

\* the response evaluations of the track loop: (track, species, table kind)
PidResponseCalls(tracks, tiny, full) ==
  {<<j, id, "tiny">> : j \in {i \in 1 .. Len(tracks) : ~PidSkipsTrack(tracks[i])},
                       id \in {x \in Species : InList(x, tiny)}}
  \cup
  {<<j, id, "full">> : j \in {i \in 1 .. Len(tracks) : ~PidSkipsTrack(tracks[i])},
                       id \in {x \in Species : InList(x, full)}}

\* tofPidMerge::init
TofPidMergeInit ==
  /\ pc = "constructed"
  /\ task = "tofPidMerge"
  /\ LET tiny == EnabledFrom(kIdxEl, cfg.requiredPID, cfg.enableParticle)
         full == EnabledFrom(kIdxEl, cfg.requiredPIDFull, cfg.enableParticleFull)
         none == Len(tiny) = 0 /\ Len(full) = 0
         auto == cfg.mAutoSetProcessFunctions /\ cfg.isFullyDefined
         r3 == IF none THEN FALSE ELSE IF auto THEN cfg.isRun3 ELSE doprocessRun3
         r2 == IF none THEN FALSE ELSE IF auto THEN ~cfg.isRun3 ELSE doprocessRun2
         fatalSwitch == ~none /\ ((r2 /\ r3) \/ (~r2 /\ ~r3))
         inherited == [mTOFCalibConfig EXCEPT !.mInitMode = 2]
         setup == InitSetup(inherited, mRespParamsV3, cfg)
         eBeta == "pidTOFbeta" \in cfg.requiredTables
         eMass == "pidTOFmass" \in cfg.requiredTables
         noBetaM == ~eBeta /\ ~eMass
         autoBetaM == cfg.mAutoSetProcessFunctions /\ cfg.isInitialized
         r3b == IF noBetaM THEN FALSE ELSE IF autoBetaM THEN cfg.isRun3
                ELSE doprocessRun3BetaM
         r2b == IF noBetaM THEN FALSE ELSE IF autoBetaM THEN ~cfg.isRun3
                ELSE doprocessRun2BetaM
         fatalBetaM == ~noBetaM /\ ((r2b /\ r3b) \/ (~r2b /\ ~r3b))
     IN  /\ mEnabledParticles' = tiny
         /\ mEnabledParticlesFull' = full
         /\ doprocessRun2' = r2
         /\ doprocessRun3' = r3
         /\ IF fatalSwitch /\ LogFatalAborts
              THEN /\ pc' = "fatal"
                   /\ mTOFCalibConfig' = inherited
                   /\ UNCHANGED <<mRespParamsV3, ccdbFetches, warnings>>
                   /\ UNCHANGED betaVars
            ELSE IF setup.fatal
              THEN /\ pc' = "fatal"
                   /\ mTOFCalibConfig' = setup.calib
                   /\ mRespParamsV3' = setup.params
                   /\ ccdbFetches' = ccdbFetches \o setup.fetches
                   /\ warnings' = warnings + setup.warned
                   /\ UNCHANGED betaVars
            ELSE /\ pc' = IF fatalBetaM /\ LogFatalAborts THEN "fatal" ELSE "idle"
                 /\ mTOFCalibConfig' = setup.calib
                 /\ mRespParamsV3' = setup.params
                 /\ ccdbFetches' = ccdbFetches \o setup.fetches
                 /\ warnings' = warnings + setup.warned
                 /\ enableTableBeta' = eBeta
                 /\ enableTableMass' = eMass
                 /\ doprocessRun2BetaM' = r2b
                 /\ doprocessRun3BetaM' = r3b
                 /\ UNCHANGED <<tablePIDBeta, tablePIDTOFMass>>
  /\ UNCHANGED <<task, cfg, batch, tablePID, tablePIDFull, responseCalls, nRefresh>>
  /\ UNCHANGED <<evTimeVars, sigVars>>

\* tofPidMerge::processRun3 and processRun2: processSetup, then the track loop
PidProcess(b) ==
  /\ pc = "idle"
  /\ task = "tofPidMerge"
  /\ MayStart(b.bc)
  /\ batch' = b
  /\ LET setup == ProcessSetup(mTOFCalibConfig, mRespParamsV3, cfg, b.bc)
     IN  /\ mTOFCalibConfig' = setup.calib
         /\ mRespParamsV3' = setup.params
         /\ ccdbFetches' = ccdbFetches \o setup.fetches
         /\ warnings' = warnings + setup.warned
         /\ nRefresh' = IF SameRunAsLast(mTOFCalibConfig, b.bc) THEN nRefresh
                        ELSE nRefresh + 1
         /\ IF setup.fatal
              THEN /\ pc' = "fatal"
                   /\ UNCHANGED <<tablePID, tablePIDFull, responseCalls>>
              ELSE /\ pc' = "done"
                   /\ tablePID' =
                        [id \in Species |->
                           PidRows(setup.params, b.tracks, mEnabledParticles, id, FALSE)]
                   /\ tablePIDFull' =
                        [id \in Species |->
                           PidRows(setup.params, b.tracks, mEnabledParticlesFull, id, TRUE)]
                   /\ responseCalls' =
                        PidResponseCalls(b.tracks, mEnabledParticles, mEnabledParticlesFull)
  /\ UNCHANGED <<task, cfg, doprocessRun2, doprocessRun3, mEnabledParticles,
                 mEnabledParticlesFull>>
  /\ UNCHANGED <<evTimeVars, sigVars, betaVars>>

\* PROCESS_SWITCH(tofPidMerge, processRun3)
PidProcessRun3(b) == doprocessRun3 /\ PidProcess(b)

\* PROCESS_SWITCH(tofPidMerge, processRun2)
PidProcessRun2(b) == doprocessRun2 /\ PidProcess(b)

\* Beta::GetBeta(trk): length / (tofSignal - tofEvTime) / c for a track with a TOF
\* hit, the default value (-999) otherwise; lengths are counted in units of c times
\* 1 ps, and a zero time of flight gives the default value
GetBeta(trk) ==
  LET tof == trk.tofSignal - trk.tofEvTime
  IN  IF ~trk.hasTOF \/ tof = 0 THEN <<kNotComputed, 1>>
      ELSE IF tof > 0 THEN Rat(trk.length, tof)
      ELSE Rat(-trk.length, -tof)

\* Beta::GetExpectedSigma(trk): beta * tofEvTimeErr / (tofSignal - tofEvTime)
BetaGetExpectedSigma(trk) ==
  LET tof == trk.tofSignal - trk.tofEvTime
      beta == GetBeta(trk)
  IN  IF ~trk.hasTOF \/ tof = 0 THEN <<kNotComputed, 1>>
      ELSE Rat(Abs(beta[1]) * trk.tofEvTimeErr, beta[2] * Abs(tof))

\* mRespParamsV3.getMomentumChargeShift(eta): a tenth of the index of the object
\* the shift was loaded from in the central bin of eta, ten times that in the
\* outer bins
getMomentumChargeShift(params, eta) == Rat(params.momShift.obj * (1 + 9 * Abs(eta)), 10)

\* the results of a float division by zero: x / 0.f for x # 0, and 0.f / 0.f
Infinity == <<1, 0>>

NaN == <<0, 0>>

\* the float division num / den of two integers
DivideFloat(num, den) ==
  IF den = 0 THEN (IF num = 0 THEN NaN ELSE Infinity)
  ELSE IF den > 0 THEN Rat(num, den)
  ELSE Rat(-num, -den)

\* 1.f + trk.sign() * mRespParamsV3.getMomentumChargeShift(trk.eta())
ShiftDenominator(params, trk) ==
  LET shift == getMomentumChargeShift(params, trk.eta)
  IN  Rat(shift[2] + trk.sign * shift[1], shift[2])

\* trk.tofExpMom() / (1.f + trk.sign() * mRespParamsV3.getMomentumChargeShift(trk.eta()))
ShiftedMomentum(params, trk) ==
  LET den == ShiftDenominator(params, trk)
  IN  DivideFloat(trk.tofExpMom * den[2], den[1])

\* TOFMass::GetTOFMass(momentum, beta): momentum * sqrt(|1/beta^2 - 1|) for a
\* positive beta, the default value otherwise; the model keeps the square of the
\* mass, and the negative default value as it is
GetTOFMass(momentum, beta) ==
  IF beta[1] <= 0 THEN <<kNotComputed, 1>>
  ELSE IF momentum[2] = 0
    THEN (IF momentum = NaN \/ beta = <<1, 1>> THEN NaN ELSE Infinity)
  ELSE Rat(momentum[1] * momentum[1] * Abs(beta[2] * beta[2] - beta[1] * beta[1]),
           momentum[2] * momentum[2] * beta[1] * beta[1])

\* the rows "tablePIDBeta(beta, responseBeta.GetExpectedSigma(trk))" of the loop
BetaRows(tracks) ==
  [j \in 1 .. Len(tracks) |->
     [trk |-> j, beta |-> GetBeta(tracks[j]), sigma |-> BetaGetExpectedSigma(tracks[j])]]

\* the rows "tablePIDTOFMass(..)" of the loop, with or without the parameters
MassRows(params, tracks) ==
  [j \in 1 .. Len(tracks) |->
     [trk |-> j,
      mass2 |-> IF cfg.enableTOFParamsForBetaMass
                  THEN GetTOFMass(ShiftedMomentum(params, tracks[j]), GetBeta(tracks[j]))
                  ELSE GetTOFMass(<<tracks[j].p, 1>>, GetBeta(tracks[j]))]]

\* tofPidMerge::processRun3BetaM and processRun2BetaM: the process function runs
\* after processRun3 or processRun2 of the same data frame when one is enabled, and
\* starts the data frame otherwise
BetaMProcess(b) ==
  /\ task = "tofPidMerge"
  /\ \/ pc = "done" /\ b = batch
     \/ pc = "idle" /\ ~doprocessRun2 /\ ~doprocessRun3
  /\ batch' = b
  /\ pc' = "doneBetaM"
  /\ IF ~enableTableBeta /\ ~enableTableMass
       THEN UNCHANGED <<tablePIDBeta, tablePIDTOFMass>>
       ELSE /\ tablePIDBeta' = IF enableTableBeta THEN BetaRows(b.tracks) ELSE <<>>
            /\ tablePIDTOFMass' = IF enableTableMass THEN MassRows(mRespParamsV3, b.tracks)
                                  ELSE <<>>
  /\ UNCHANGED <<task, cfg, doprocessRun2, doprocessRun3, mTOFCalibConfig, mRespParamsV3,
                 ccdbFetches, warnings, nRefresh, enableTableBeta, enableTableMass,
                 doprocessRun2BetaM, doprocessRun3BetaM>>
  /\ UNCHANGED <<evTimeVars, pidVars, sigVars>>

\* PROCESS_SWITCH(tofPidMerge, processRun3BetaM)
ProcessRun3BetaM(b) == doprocessRun3BetaM /\ BetaMProcess(b)

\* PROCESS_SWITCH(tofPidMerge, processRun2BetaM)
ProcessRun2BetaM(b) == doprocessRun2BetaM /\ BetaMProcess(b)

-----------------------------------------------------------------------------
(* tofSignal *)

\* TOFSignal::GetTOFSignal: the signal is the raw timing field of the track, in ps
GetTOFSignal(trk) == trk.trackTime

\* isTrackGoodMatchForTOFPID
isTrackGoodMatchForTOFPID(tr) == IF ~tr.hasTOF THEN FALSE ELSE TRUE

\* tofSignal::init
TofSignalInit ==
  /\ pc = "constructed"
  /\ task = "tofSignal"
  /\ LET eSig == "TOFSignal" \in cfg.requiredTables
         eFlags == "pidTOFFlags" \in cfg.requiredTables
         auto == /\ cfg.mAutoSetProcessFunctions
                 /\ cfg.isFullyDefined /\ ~doprocessRun2 /\ ~doprocessRun3
         r3 == IF auto /\ cfg.isRun3 THEN TRUE ELSE doprocessRun3
         r2 == IF auto /\ ~cfg.isRun3 THEN FALSE ELSE doprocessRun2
         fatalSwitch == (r2 /\ r3) \/ (~r2 /\ ~r3)
         setup == InitSetup(mTOFCalibConfig, mRespParamsV3, cfg)
     IN  /\ enableTableTOFSignal' = eSig
         /\ enableTablepidTOFFlags' = eFlags
         /\ IF ~eSig /\ ~eFlags /\ ~doprocessRun2 /\ ~doprocessRun3
              THEN /\ pc' = "idle"
                   /\ UNCHANGED <<doprocessRun2, doprocessRun3, mTOFCalibConfig,
                                  mRespParamsV3, ccdbFetches, warnings>>
            ELSE IF fatalSwitch /\ LogFatalAborts
              THEN /\ pc' = "fatal"
                   /\ doprocessRun2' = r2
                   /\ doprocessRun3' = r3
                   /\ UNCHANGED <<mTOFCalibConfig, mRespParamsV3, ccdbFetches, warnings>>
            ELSE /\ pc' = IF setup.fatal THEN "fatal" ELSE "idle"
                 /\ doprocessRun2' = r2
                 /\ doprocessRun3' = r3
                 /\ mTOFCalibConfig' = setup.calib
                 /\ mRespParamsV3' = setup.params
                 /\ ccdbFetches' = ccdbFetches \o setup.fetches
                 /\ warnings' = warnings + setup.warned
  /\ UNCHANGED <<task, cfg, batch, nRefresh, tableTOFSignal, tablepidTOFFlags>>
  /\ UNCHANGED <<evTimeVars, pidVars, betaVars>>

\* the rows "table(sig)" of the track loop
SignalRows(tracks) ==
  [j \in 1 .. Len(tracks) |-> [trk |-> j, tofSignal |-> GetTOFSignal(tracks[j])]]

\* the rows "tableFlags(b)" of the track loop of processRun3
FlagRowsRun3(tracks) ==
  [j \in 1 .. Len(tracks) |->
     [trk |-> j, goodForPIDFlags |-> isTrackGoodMatchForTOFPID(tracks[j])]]

\* the rows "tableFlags(true)" of the track loop of processRun2
FlagRowsRun2(tracks) ==
  [j \in 1 .. Len(tracks) |-> [trk |-> j, goodForPIDFlags |-> TRUE]]

\* tofSignal::processRun3
SigProcessRun3(b) ==
  /\ pc = "idle"
  /\ task = "tofSignal"
  /\ doprocessRun3
  /\ batch' = b
  /\ pc' = "done"
  /\ IF ~enableTableTOFSignal
       THEN UNCHANGED <<tableTOFSignal, tablepidTOFFlags>>
       ELSE /\ tableTOFSignal' = SignalRows(b.tracks)
            /\ tablepidTOFFlags' = IF enableTablepidTOFFlags THEN FlagRowsRun3(b.tracks)
                                   ELSE <<>>
  /\ UNCHANGED <<task, cfg, doprocessRun2, doprocessRun3, mTOFCalibConfig, mRespParamsV3,
                 ccdbFetches, warnings, nRefresh, enableTableTOFSignal,
                 enableTablepidTOFFlags>>
  /\ UNCHANGED <<evTimeVars, pidVars, betaVars>>

\* tofSignal::processRun2
SigProcessRun2(b) ==
  /\ pc = "idle"
  /\ task = "tofSignal"
  /\ doprocessRun2
  /\ batch' = b
  /\ pc' = "done"
  /\ IF ~enableTableTOFSignal
       THEN UNCHANGED <<tableTOFSignal, tablepidTOFFlags>>
       ELSE /\ tableTOFSignal' = SignalRows(b.tracks)
            /\ tablepidTOFFlags' = IF enableTablepidTOFFlags THEN FlagRowsRun2(b.tracks)
                                   ELSE <<>>
  /\ UNCHANGED <<task, cfg, doprocessRun2, doprocessRun3, mTOFCalibConfig, mRespParamsV3,
                 ccdbFetches, warnings, nRefresh, enableTableTOFSignal,
                 enableTablepidTOFFlags>>
  /\ UNCHANGED <<evTimeVars, pidVars, betaVars>>

-----------------------------------------------------------------------------
(* Configurations and specifications *)

AllPasses == {"apass", "unanchored"}

\* the default options of the workflow, on Run 3 data with complete metadata
BaseCfg ==
  [ccdbPasses |-> <<AllPasses, AllPasses>>,
   filePasses |-> AllPasses,
   mReconstructionPass |-> "apass",
   mReconstructionPassDefault |-> "unanchored",
   mFatalOnPassNotAvailable |-> TRUE,
   mEnableTimeDependentResponse |-> FALSE,
   mParamFileName |-> "",
   mTimeShiftCCDBPathPos |-> "",
   mTimeShiftCCDBPathNeg |-> "",
   cfgTimestamp |-> 1,
   cfgCollisionSystem |-> -1,
   mAutoSetProcessFunctions |-> TRUE,
   isFullyDefined |-> TRUE,
   isInitialized |-> TRUE,
   isRun3 |-> TRUE,
   requiredTables |-> {"TOFEvTime", "EvTimeTOFOnly"},
   requiredPID |-> {},
   requiredPIDFull |-> {},
   enableParticle |-> [id \in Species |-> -1],
   enableParticleFull |-> [id \in Species |-> -1],
   processRun2 |-> FALSE,
   processRun3 |-> FALSE,
   processRun2BetaM |-> FALSE,
   processRun3BetaM |-> FALSE,
   enableTOFParamsForBetaMass |-> FALSE,
   minMomentum |-> 5,
   maxMomentum |-> 20,
   maxEvTimeTOF |-> 0,
   sel8TOFEvTime |-> FALSE,
   computeEvTimeWithTOF |-> -1,
   computeEvTimeWithFT0 |-> -1]

\* (computeEvTimeWithTOF, computeEvTimeWithFT0, collisionSystem, sel8TOFEvTime,
\*  maxEvTimeTOF): the explicit modes with and without the cuts, the autoset for
\* pp, PbPb, an unsupported system and the system read from the GRP, no mode,
\* and the explicit and half-explicit modes on an unsupported system
EvTimeModes ==
  {<<1, 1, 0, FALSE, 0>>, <<1, 1, 0, TRUE, 0>>, <<1, 1, 0, FALSE, 5>>,
   <<1, 0, 0, FALSE, 0>>, <<1, 0, 0, TRUE, 0>>, <<1, 0, 0, FALSE, 5>>,
   <<0, 1, 0, FALSE, 0>>, <<0, 1, 0, TRUE, 0>>,
   <<-1, -1, 0, FALSE, 0>>, <<-1, -1, 1, FALSE, 0>>, <<-1, 1, 1, FALSE, 0>>,
   <<-1, -1, 2, FALSE, 0>>, <<-1, -1, -1, FALSE, 0>>, <<0, 0, 0, FALSE, 0>>,
   <<1, 1, 2, FALSE, 0>>, <<1, 0, 2, FALSE, 0>>, <<-1, 1, 2, FALSE, 0>>}

EvTimeCfgs ==
  {[BaseCfg EXCEPT !.computeEvTimeWithTOF = m[1], !.computeEvTimeWithFT0 = m[2],
                   !.cfgCollisionSystem = m[3], !.sel8TOFEvTime = m[4],
                   !.maxEvTimeTOF = m[5]] : m \in EvTimeModes}
  \cup {[BaseCfg EXCEPT !.requiredTables = r, !.computeEvTimeWithTOF = 1,
                        !.computeEvTimeWithFT0 = 1] : r \in {{}, {"TOFEvTime"}, {"EvTimeTOFOnly"}}}
  \cup {[BaseCfg EXCEPT !.isRun3 = FALSE, !.processRun2 = r2, !.processRun3 = r3] :
          r2 \in BOOLEAN, r3 \in BOOLEAN}
  \cup {[BaseCfg EXCEPT !.isFullyDefined = FALSE, !.processRun2 = r2, !.processRun3 = r3] :
          r2 \in BOOLEAN, r3 \in BOOLEAN}

\* the state of a task after construction, before init
InitWith(t, cfgs) ==
  /\ task = t
  /\ cfg \in cfgs
  /\ pc = "constructed"
  /\ doprocessRun2 = cfg.processRun2
  /\ doprocessRun3 = cfg.processRun3
  /\ mTOFCalibConfig = CalibAfterConstruction(cfg)
  /\ mRespParamsV3 = DefaultParams
  /\ mComputeEvTimeWithTOF = cfg.computeEvTimeWithTOF
  /\ mComputeEvTimeWithFT0 = cfg.computeEvTimeWithFT0
  /\ enableTableTOFEvTime = FALSE
  /\ enableTableEvTimeTOFOnly = FALSE
  /\ mEnabledParticles = <<>>
  /\ mEnabledParticlesFull = <<>>
  /\ batch = [tracks |-> <<>>, bc |-> [runNumber |-> 0, timestamp |-> 0]]
  /\ lastCollisionId = -1
  /\ tableEvTime = <<>>
  /\ tableFlags = <<>>
  /\ tableEvTimeTOFOnly = <<>>
  /\ tablePID = EmptyPidTables
  /\ tablePIDFull = EmptyPidTables
  /\ ccdbFetches = <<>>
  /\ makerCalls = <<>>
  /\ responseCalls = {}
  /\ warnings = 0
  /\ nRefresh = 0
  /\ enableTableTOFSignal = FALSE
  /\ enableTablepidTOFFlags = FALSE
  /\ tableTOFSignal = <<>>
  /\ tablepidTOFFlags = <<>>
  /\ enableTableBeta = FALSE
  /\ enableTableMass = FALSE
  /\ doprocessRun2BetaM = cfg.processRun2BetaM
  /\ doprocessRun3BetaM = cfg.processRun3BetaM
  /\ tablePIDBeta = <<>>
  /\ tablePIDTOFMass = <<>>

\* the tracks of the event-time specification: every kind in collision 0, the two
\* sample members in collision 1, one sample member in collision 2, and one track
\* without collision (its kind is never read)
EvTimeTracks ==
  {t \in TracksOf({-1} \cup CollisionIds) :
     \/ t.collisionId = 0
     \/ t.collisionId = 1 /\ t.p # 5
     \/ t.collisionId = 2 /\ t.p = 10
     \/ t.collisionId = -1 /\ t.p = 10}

\* the data frames of the event-time specification: any track table, one run
EvTimeFrames ==
  {[tracks |-> trks, bc |-> [runNumber |-> 1, timestamp |-> 1]] :
     trks \in TrackTables(EvTimeTracks)}

InitEvTime == InitWith("tofEventTime", EvTimeCfgs)

NextEvTime ==
  \/ TofEventTimeInit
  \/ \E b \in EvTimeFrames : EvTimeProcessRun3(b)
  \/ \E b \in EvTimeFrames : EvTimeProcessRun2(b)
  \/ FrameDone

SpecEvTime == InitEvTime /\ [][NextEvTime]_vars

\* the three modes of processRun3, with and without the sel8 selection
Sel8Cfgs ==
  {[BaseCfg EXCEPT !.computeEvTimeWithTOF = m[1], !.computeEvTimeWithFT0 = m[2],
                   !.cfgCollisionSystem = kCollSyspp, !.sel8TOFEvTime = s] :
     m \in {<<1, 1>>, <<1, 0>>, <<0, 1>>}, s \in BOOLEAN}

\* the two sample members in collision 3, which fails sel8 and has a valid FT0,
\* and one in collision 0, which passes
Sel8Tracks ==
  {t \in TracksOf(CollisionIds) :
     \/ t.collisionId = 3 /\ t.p # 5
     \/ t.collisionId = 0 /\ t.p = 10}

Sel8Frames ==
  {[tracks |-> trks, bc |-> [runNumber |-> 1, timestamp |-> 1]] :
     trks \in TrackTables(Sel8Tracks)}

InitSel8 == InitWith("tofEventTime", Sel8Cfgs)

NextSel8 ==
  \/ TofEventTimeInit
  \/ \E b \in Sel8Frames : EvTimeProcessRun3(b)
  \/ FrameDone

SpecSel8 == InitSel8 /\ [][NextSel8]_vars

\* (required tiny, required full, species switched off, species forced on)
PidTables ==
  {<<{}, {}, {}, {}>>,
   <<{kIdxPi}, {}, {}, {}>>,
   <<{}, {kIdxPi}, {}, {}>>,
   <<{kIdxEl, kIdxPi, kIdxAl}, {kIdxPi, kIdxKa}, {}, {}>>,
   <<{kIdxPi, kIdxPr}, {kIdxPi, kIdxPr}, {kIdxPr}, {kIdxKa}>>}

PidFlags(off, on) == [id \in Species |-> IF id \in off THEN 0 ELSE IF id \in on THEN 1 ELSE -1]

PidCfgs ==
  {[BaseCfg EXCEPT !.requiredPID = t[1], !.requiredPIDFull = t[2],
                   !.enableParticle = PidFlags(t[3], t[4]),
                   !.enableParticleFull = PidFlags(t[3], {}),
                   !.isRun3 = r3] : t \in PidTables, r3 \in BOOLEAN}
  \cup {[BaseCfg EXCEPT !.requiredPID = {kIdxPi}, !.isFullyDefined = FALSE,
                        !.processRun2 = r2, !.processRun3 = r3] :
          r2 \in BOOLEAN, r3 \in BOOLEAN}
  \cup {[BaseCfg EXCEPT !.requiredPID = {kIdxPi}, !.mAutoSetProcessFunctions = FALSE,
                        !.processRun3 = TRUE]}

\* the data frames of the PID specification: any mix of associated and
\* unassociated tracks, one run
PidFrames ==
  {[tracks |-> trks, bc |-> [runNumber |-> 1, timestamp |-> 1]] :
     trks \in TrackTables(PidTracksOf({-1, 0}))}

InitPid == InitWith("tofPidMerge", PidCfgs)

NextPid ==
  \/ TofPidMergeInit
  \/ \E b \in PidFrames : PidProcessRun3(b)
  \/ \E b \in PidFrames : PidProcessRun2(b)
  \/ FrameDone

SpecPid == InitPid /\ [][NextPid]_vars

\* the passes a parameter collection may store
PassSets == {AllPasses, {"unanchored"}, {}}

\* tofPidMerge with the pion tables, over the calibration options
CalibBase == [BaseCfg EXCEPT !.requiredPID = {kIdxPi}, !.requiredPIDFull = {kIdxPi}]

CalibCfgs ==
  {[CalibBase EXCEPT !.ccdbPasses = <<p1, p2>>, !.mFatalOnPassNotAvailable = f,
                     !.mEnableTimeDependentResponse = td] :
     p1 \in PassSets, p2 \in PassSets, f \in BOOLEAN, td \in BOOLEAN}
  \cup {[CalibBase EXCEPT !.mParamFileName = "params.root", !.filePasses = p,
                          !.mFatalOnPassNotAvailable = f,
                          !.mEnableTimeDependentResponse = td] :
          p \in PassSets, f \in BOOLEAN, td \in BOOLEAN}
  \cup {[CalibBase EXCEPT !.mTimeShiftCCDBPathPos = pos, !.mTimeShiftCCDBPathNeg = neg,
                          !.mEnableTimeDependentResponse = td] :
          pos \in {"shift.root", "Analysis/PID/TOF/shiftPos"},
          neg \in {"", "Analysis/PID/TOF/shiftNeg"}, td \in BOOLEAN}
  \cup {[CalibBase EXCEPT !.cfgCollisionSystem = kCollSysPbPb,
                          !.mEnableTimeDependentResponse = td, !.isRun3 = r3] :
          td \in BOOLEAN, r3 \in BOOLEAN}

\* the bunch crossings of the calibration specification: two runs, and two
\* timestamps in each
CalibBCs ==
  {[runNumber |-> 1, timestamp |-> 1], [runNumber |-> 1, timestamp |-> 2],
   [runNumber |-> 2, timestamp |-> 2], [runNumber |-> 2, timestamp |-> 3]}

CalibFrames ==
  {[tracks |-> trks, bc |-> bc] :
     trks \in TrackTables({[tofSignal |-> 20000, tofEvTime |-> 100, tofExpTimePi |-> 19800,
                            collisionId |-> 0]}),
     bc \in CalibBCs}

InitCalib == InitWith("tofPidMerge", CalibCfgs)

NextCalib ==
  \/ TofPidMergeInit
  \/ \E b \in CalibFrames : PidProcessRun3(b)
  \/ \E b \in CalibFrames : PidProcessRun2(b)
  \/ FrameDone

SpecCalib == InitCalib /\ [][NextCalib]_vars

\* tofSignal over the requested tables, the process switches and the metadata
SigCfgs ==
  {[BaseCfg EXCEPT !.requiredTables = r, !.processRun2 = r2, !.processRun3 = r3,
                   !.mAutoSetProcessFunctions = auto, !.isFullyDefined = def,
                   !.isRun3 = run3] :
     r \in SUBSET {"TOFSignal", "pidTOFFlags"}, r2 \in BOOLEAN, r3 \in BOOLEAN,
     auto \in BOOLEAN, def \in BOOLEAN, run3 \in BOOLEAN}

\* the tracks of tofSignal: with and without a TOF hit
SigTracks ==
  {[hasTOF |-> TRUE, trackTime |-> 20000], [hasTOF |-> TRUE, trackTime |-> 15000],
   [hasTOF |-> FALSE, trackTime |-> 0]}

SigFrames ==
  {[tracks |-> trks, bc |-> [runNumber |-> 1, timestamp |-> 1]] :
     trks \in TrackTables(SigTracks)}

InitSignal == InitWith("tofSignal", SigCfgs)

NextSignal ==
  \/ TofSignalInit
  \/ \E b \in SigFrames : SigProcessRun3(b)
  \/ \E b \in SigFrames : SigProcessRun2(b)
  \/ FrameDone

SpecSignal == InitSignal /\ [][NextSignal]_vars

\* tofPidMerge with the beta and mass tables, time-dependent response: the pion
\* tables requested or not, the mass table alone or with the beta table, the
\* process functions autodetected, set by hand, or left without metadata
BetaCfgs ==
  {[BaseCfg EXCEPT !.requiredPID = pid, !.requiredTables = t, !.isRun3 = run3,
                   !.enableTOFParamsForBetaMass = e,
                   !.mEnableTimeDependentResponse = TRUE] :
     pid \in {{}, {kIdxPi}}, t \in {{}, {"pidTOFmass"}, {"pidTOFbeta", "pidTOFmass"}},
     run3 \in BOOLEAN, e \in BOOLEAN}
  \cup {[BaseCfg EXCEPT !.requiredTables = {"pidTOFbeta"},
                        !.mAutoSetProcessFunctions = auto, !.isInitialized = FALSE,
                        !.isFullyDefined = FALSE,
                        !.processRun2BetaM = r2, !.processRun3BetaM = r3] :
          auto \in BOOLEAN, r2 \in BOOLEAN, r3 \in BOOLEAN}

\* the tracks of the beta and mass tables: with a TOF hit in a collision, with a
\* TOF hit and no collision (event time 0), without TOF hit, and a negative track
\* with a TOF hit in an outer bin of eta
BetaTracks ==
  {[collisionId |-> 0, hasTOF |-> TRUE, tofSignal |-> 20000, tofEvTime |-> 100,
    tofEvTimeErr |-> 50, tofExpTimePi |-> 19800, length |-> 19000, p |-> 10,
    tofExpMom |-> 11, sign |-> 1, eta |-> 0],
   [collisionId |-> -1, hasTOF |-> TRUE, tofSignal |-> 20000, tofEvTime |-> 0,
    tofEvTimeErr |-> 200, tofExpTimePi |-> 19800, length |-> 19000, p |-> 10,
    tofExpMom |-> 11, sign |-> -1, eta |-> 0],
   [collisionId |-> 0, hasTOF |-> FALSE, tofSignal |-> 0, tofEvTime |-> 100,
    tofEvTimeErr |-> 50, tofExpTimePi |-> 0, length |-> 0, p |-> 10,
    tofExpMom |-> 0, sign |-> 1, eta |-> 0],
   [collisionId |-> 0, hasTOF |-> TRUE, tofSignal |-> 20000, tofEvTime |-> 100,
    tofEvTimeErr |-> 50, tofExpTimePi |-> 19800, length |-> 19000, p |-> 10,
    tofExpMom |-> 11, sign |-> -1, eta |-> 1]}

\* data frames of two runs, whose parameter objects differ
BetaFrames ==
  {[tracks |-> trks, bc |-> bc] :
     trks \in TrackTables(BetaTracks),
     bc \in {[runNumber |-> 1, timestamp |-> 1], [runNumber |-> 2, timestamp |-> 3]}}

InitBetaM == InitWith("tofPidMerge", BetaCfgs)

NextBetaM ==
  \/ TofPidMergeInit
  \/ \E b \in BetaFrames : PidProcessRun3(b)
  \/ \E b \in BetaFrames : PidProcessRun2(b)
  \/ \E b \in BetaFrames : ProcessRun3BetaM(b)
  \/ \E b \in BetaFrames : ProcessRun2BetaM(b)
  \/ FrameDone

SpecBetaM == InitBetaM /\ [][NextBetaM]_vars

\* the three tasks of the workflow at start-up
InitTasks ==
  \/ InitWith("tofSignal", SigCfgs)
  \/ InitWith("tofEventTime", EvTimeCfgs)
  \/ InitWith("tofPidMerge", PidCfgs \cup BetaCfgs)

NextTasks ==
  \/ TofSignalInit
  \/ TofEventTimeInit
  \/ TofPidMergeInit

SpecTasks == InitTasks /\ [][NextTasks]_vars

\* the event-time task over several runs: the modes left at auto, half set and
\* set, the beam type set or read from the GRP, the response fixed or
\* time dependent
EvTimeRunsCfgs ==
  {[BaseCfg EXCEPT !.computeEvTimeWithTOF = m[1], !.computeEvTimeWithFT0 = m[2],
                   !.cfgCollisionSystem = sys, !.mEnableTimeDependentResponse = td] :
     m \in {<<-1, -1>>, <<-1, 1>>, <<1, 0>>}, sys \in {-1, kCollSyspp, kCollSysPbPb},
     td \in BOOLEAN}

\* bunch crossings of three runs; the GRP of timestamp 1 says pp, of timestamp 2
\* PbPb, of timestamp 3 XeXe
EvTimeRunsBCs == CalibBCs \cup {[runNumber |-> 3, timestamp |-> 1]}

EvTimeRunsFrames ==
  {[tracks |-> trks, bc |-> bc] :
     trks \in TrackTables({t \in EvTimeTracks : t.p = 10 /\ t.collisionId \in {-1, 0}}),
     bc \in EvTimeRunsBCs}

InitEvTimeRuns == InitWith("tofEventTime", EvTimeRunsCfgs)

NextEvTimeRuns ==
  \/ TofEventTimeInit
  \/ \E b \in EvTimeRunsFrames : EvTimeProcessRun3(b)
  \/ FrameDone

SpecEvTimeRuns == InitEvTimeRuns /\ [][NextEvTimeRuns]_vars

-----------------------------------------------------------------------------
(* Properties of tofEventTime *)

Rows == 1 .. Len(tableEvTime)

\* the track a row of the event-time table was written for
TrackOfRow(k) == batch.tracks[tableEvTime[k].trk]

EvTimeEmitted == task = "tofEventTime" /\ pc = "done" /\ enableTableTOFEvTime

\* C1 as stated: in processRun2 and every mode of processRun3 the rows of a track
\* without collision are flags 0 and (time 0, error = diamond error), the error of
\* a rejected estimate
C1_NoCollisionRowIsDiamond ==
  \A k \in Rows :
    ~has_collision(TrackOfRow(k)) =>
      /\ tableFlags[k].flags = {}
      /\ tableEvTime[k].time = <<0, 1>>
      /\ tableEvTime[k].err2 = Err2(kErrDiamond)

\* C1 amended: every track without collision gets one row, flags 0 and (time 0,
\* error 999 ps); 999 ps is larger than the diamond error that a rejected estimate
\* falls back to
C1_NoCollisionRowIs999 ==
  /\ \A k \in Rows :
       ~has_collision(TrackOfRow(k)) =>
         /\ tableFlags[k] = [trk |-> tableEvTime[k].trk, flags |-> {}]
         /\ tableEvTime[k].time = <<0, 1>>
         /\ tableEvTime[k].err2 = Err2(kErrNoEvTime)
         /\ RatLess(Err2(kErrDiamond), tableEvTime[k].err2)
  /\ (EvTimeEmitted /\ pc = "done") =>
       \A j \in 1 .. Len(batch.tracks) :
         ~has_collision(batch.tracks[j]) =>
           Cardinality({k \in Rows : tableEvTime[k].trk = j}) = 1

\* C1 witness: a finished data frame of processRun3 with an unassigned track and
\* a track whose TOF estimate was rejected, with their different errors
C1_Witness ==
  /\ EvTimeEmitted /\ pc = "done" /\ doprocessRun3
  /\ \E k \in Rows : ~has_collision(TrackOfRow(k))
  /\ \E k \in Rows : /\ has_collision(TrackOfRow(k))
                     /\ tableFlags[k].flags = {}
                     /\ tableEvTime[k].err2 = Err2(kErrDiamond)

\* C4 as stated: after processRun3 the event-time table and the flags table hold
\* one row per track, the k-th row for the k-th track, for every data frame
C4_OneRowPerTrackInOrder ==
  (EvTimeEmitted /\ pc = "done" /\ doprocessRun3) =>
     /\ Len(tableEvTime) = Len(batch.tracks)
     /\ Len(tableFlags) = Len(batch.tracks)
     /\ \A k \in Rows : tableEvTime[k].trk = k /\ tableFlags[k].trk = k

\* the sum of weights the TOF+FT0 mode accumulates for track j of the data frame
AccumulatedWeight(j) ==
  LET trk == batch.tracks[j]
      idxs == SliceBy(batch.tracks, trk.collisionId)
      maker == evTimeMakerForTracks(cfg, batch.tracks, idxs)
  IN  TOFTerm(cfg, TOFEstimate(cfg, maker, trk)).weight
        + FT0Term(Collision(trk.collisionId)).weight

InTOFFT0Mode == EvTimeEmitted /\ doprocessRun3
                /\ mComputeEvTimeWithTOF = 1 /\ mComputeEvTimeWithFT0 = 1

InTOFMode == EvTimeEmitted /\ doprocessRun3
             /\ mComputeEvTimeWithTOF = 1 /\ mComputeEvTimeWithFT0 = 0

\* the rows written by the inner loop: the track has a collision that passed the gate
ComputedRow(k) == ~NoCollisionOrNotSel8(cfg, TrackOfRow(k))

\* C5: in TOF+FT0 mode a sum of weights below kWeightDiamond (zero included) gives
\* the row (time 0, diamond error) with flags 0, and no row is divided by less than
\* kWeightDiamond, i.e. no emitted error exceeds the diamond error
C5_WeightFloor ==
  InTOFFT0Mode =>
    \A k \in Rows :
      ComputedRow(k) =>
        /\ AccumulatedWeight(tableEvTime[k].trk) < kWeightDiamond =>
             /\ tableEvTime[k].time = <<0, 1>>
             /\ tableEvTime[k].err2 = Err2(kErrDiamond)
             /\ tableFlags[k].flags = {}
        /\ WeightOfErr2(tableEvTime[k].err2) >= kWeightDiamond
        /\ ~RatLess(Err2(kErrDiamond), tableEvTime[k].err2)

\* C5 witness: rows of TOF+FT0 mode with a sum of weights of zero and with a sum
\* of weights between zero and the floor
C5_Witness ==
  /\ InTOFFT0Mode
  /\ \E k \in Rows : ComputedRow(k) /\ AccumulatedWeight(tableEvTime[k].trk) = 0
  /\ \E k \in Rows : /\ ComputedRow(k)
                     /\ AccumulatedWeight(tableEvTime[k].trk) > 0
                     /\ AccumulatedWeight(tableEvTime[k].trk) < kWeightDiamond

\* the calibration sample of the collision of track j is the track itself
AloneInSample(j) ==
  LET trk == batch.tracks[j]
      idxs == SliceBy(batch.tracks, trk.collisionId)
  IN  /\ filterForTOFEventTime(cfg, trk)
      /\ evTimeMakerForTracks(cfg, batch.tracks, idxs).mEventTimeMultiplicity = 1

\* C6: a track that is alone in the calibration sample of its collision gets no TOF
\* contribution: no EvTimeTOF flag, and in TOF-only mode the row (0, diamond error, 0)
C6_SingleTrackSample ==
  (InTOFFT0Mode \/ InTOFMode) =>
    \A k \in Rows :
      (ComputedRow(k) /\ AloneInSample(tableEvTime[k].trk)) =>
        /\ "EvTimeTOF" \notin tableFlags[k].flags
        /\ InTOFMode => /\ tableFlags[k].flags = {}
                        /\ tableEvTime[k].time = <<0, 1>>
                        /\ tableEvTime[k].err2 = Err2(kErrDiamond)
        /\ enableTableEvTimeTOFOnly => tableEvTimeTOFOnly[k].err2 = Err2(kErrDiamond)

\* C6 witness: in TOF-only mode, the fallback row of a track that is alone in the
\* sample of its collision, next to other tracks of the same collision
C6_Witness ==
  /\ InTOFMode
  /\ \E k \in Rows : /\ ComputedRow(k) /\ AloneInSample(tableEvTime[k].trk)
                     /\ Len(SliceBy(batch.tracks, TrackOfRow(k).collisionId)) > 1


\* both mode options were left at auto and the collision system is PbPb
AutoPbPb ==
  /\ cfg.computeEvTimeWithTOF = -1
  /\ cfg.computeEvTimeWithFT0 = -1
  /\ mTOFCalibConfig.mCollisionSystem = kCollSysPbPb

\* the TOF estimate of the track of row k, computed from the tracks alone
TOFEstimateOfRow(k) ==
  LET trk == TrackOfRow(k)
      idxs == SliceBy(batch.tracks, trk.collisionId)
  IN  TOFEstimate(cfg, evTimeMakerForTracks(cfg, batch.tracks, idxs), trk)

\* C11: with both options at auto and a PbPb collision system the mode is TOF only:
\* no row has the EvTimeT0AC flag, and every emitted time and error is the TOF
\* estimate of the track or a constant, whatever the FT0 of the collision holds
C11_PbPbAutoIsTOFOnly ==
  (EvTimeEmitted /\ doprocessRun3 /\ AutoPbPb) =>
    /\ mComputeEvTimeWithTOF = 1
    /\ mComputeEvTimeWithFT0 = 0
    /\ \A k \in Rows :
         /\ "EvTimeT0AC" \notin tableFlags[k].flags
         /\ IF ~ComputedRow(k)
              THEN /\ tableEvTime[k].time = <<0, 1>>
                   /\ tableEvTime[k].err2 = Err2(kErrNoEvTime)
            ELSE IF "EvTimeTOF" \in tableFlags[k].flags
              THEN /\ tableEvTime[k].time = TOFEstimateOfRow(k).time
                   /\ tableEvTime[k].err2 = TOFEstimateOfRow(k).err2
            ELSE /\ tableEvTime[k].time = <<0, 1>>
                 /\ tableEvTime[k].err2 = Err2(kErrDiamond)

\* C11 witness: rows with a TOF estimate in a collision with a valid FT0, next to
\* a row of a collision whose FT0 is not valid or missing
C11_Witness ==
  /\ EvTimeEmitted /\ doprocessRun3 /\ AutoPbPb
  /\ \E k \in Rows : /\ "EvTimeTOF" \in tableFlags[k].flags
                     /\ Collision(TrackOfRow(k).collisionId).t0ACValid
  /\ \E k \in Rows : /\ ComputedRow(k)
                     /\ ~Collision(TrackOfRow(k).collisionId).t0ACValid

\* processRun3 of tofEventTime ran on the data frame in `batch`
Run3Processed ==
  /\ task = "tofEventTime"
  /\ doprocessRun3
  /\ enableTableTOFEvTime
  /\ batch.bc.runNumber # 0
  /\ pc \in {"done", "fatal"}

UnsupportedSystem == mTOFCalibConfig.mCollisionSystem \notin {kCollSyspp, kCollSysPbPb}

\* C12 as stated: whatever the two mode options, a collision system that is neither
\* pp nor PbPb ends the data frame in a fatal error without any row
C12_UnsupportedSystemIsFatal ==
  (Run3Processed /\ UnsupportedSystem) =>
    /\ pc = "fatal"
    /\ tableEvTime = <<>>
    /\ tableFlags = <<>>

\* C12 amended: the collision system is looked at only while a mode option is at
\* auto: then an unsupported system is fatal and no row is emitted; with both
\* options set to a valid mode the data frame is processed, one row set per track
C12_UnsupportedSystemIsFatalOnAuto ==
  (Run3Processed /\ UnsupportedSystem) =>
    /\ (cfg.computeEvTimeWithTOF = -1 \/ cfg.computeEvTimeWithFT0 = -1) =>
         /\ pc = "fatal"
         /\ tableEvTime = <<>>
         /\ tableFlags = <<>>
    /\ ValidMode(cfg.computeEvTimeWithTOF, cfg.computeEvTimeWithFT0) =>
         /\ pc = "done"
         /\ Len(tableEvTime) >= Len(batch.tracks)
         /\ Len(tableFlags) = Len(tableEvTime)

\* C12 witness: the fatal end of a data frame with tracks, one option at auto
C12_Witness ==
  /\ Run3Processed /\ UnsupportedSystem
  /\ pc = "fatal"
  /\ cfg.computeEvTimeWithTOF = -1
  /\ cfg.computeEvTimeWithFT0 = 1
  /\ Len(batch.tracks) > 0

\* a first data frame went through processSetup and the mode autoset of processRun3
ModeResolved ==
  /\ task = "tofEventTime"
  /\ mTOFCalibConfig.mLastRunNumber # -1
  /\ pc \in {"idle", "done"}

\* C13: once the first data frame resolved the (TOF, FT0) mode and the collision
\* system, no later step changes them, whatever the run, timestamp or beam type
\* of the later data frames
C13_ModeKeptAcrossBatches ==
  [][ModeResolved =>
       /\ mComputeEvTimeWithTOF' = mComputeEvTimeWithTOF
       /\ mComputeEvTimeWithFT0' = mComputeEvTimeWithFT0
       /\ mTOFCalibConfig'.mCollisionSystem = mTOFCalibConfig.mCollisionSystem]_vars

\* C13 witness: resolved as pp at timestamp 1, then a data frame of a later run
\* whose GRP says PbPb was processed with the pp system and the FT0-only mode
C13_Witness ==
  /\ ModeResolved
  /\ pc = "done"
  /\ cfg.cfgCollisionSystem = -1
  /\ cfg.computeEvTimeWithTOF = -1
  /\ cfg.computeEvTimeWithFT0 = -1
  /\ batch.bc.runNumber = 2
  /\ GetCollisionTypeFromGrp(batch.bc.timestamp) = kCollSysPbPb
  /\ mTOFCalibConfig.mCollisionSystem = kCollSyspp
  /\ mComputeEvTimeWithTOF = 0
  /\ mComputeEvTimeWithFT0 = 1
  /\ Len(ccdbFetches) > 1
  /\ Len(tableEvTime) > 0

-----------------------------------------------------------------------------
(* Properties of tofSignal *)

\* C14: a pidTOFFlags row of tofSignal is true only if its track has a TOF hit,
\* after processRun3 and after processRun2
C14_FlagOnlyWithTOFHit ==
  (task = "tofSignal" /\ pc = "done") =>
    \A k \in 1 .. Len(tablepidTOFFlags) :
      tablepidTOFFlags[k].goodForPIDFlags => batch.tracks[tablepidTOFFlags[k].trk].hasTOF

-----------------------------------------------------------------------------
(* Properties of tofPidMerge *)

\* the species switched on: forced by the flag, or requested by the workflow with
\* the flag left at -1
SwitchedOn(required, flags) ==
  {id \in Species : flags[id] = 1 \/ (flags[id] = -1 /\ id \in required)}

\* list holds exactly the species of S, in increasing index order
IsListOf(list, S) ==
  /\ Len(list) = Cardinality(S)
  /\ {list[k] : k \in 1 .. Len(list)} = S
  /\ \A k \in 1 .. Len(list) - 1 : list[k] < list[k + 1]

\* C15: after init the two enabled-species lists are the species switched on, in
\* index order, and no later step (no process function, no end of data frame)
\* changes them
C15_EnabledListsFixed ==
  [][(task = "tofPidMerge" /\ pc # "constructed") =>
       /\ mEnabledParticles' = mEnabledParticles
       /\ mEnabledParticlesFull' = mEnabledParticlesFull
       /\ IsListOf(mEnabledParticles, SwitchedOn(cfg.requiredPID, cfg.enableParticle))
       /\ IsListOf(mEnabledParticlesFull,
                   SwitchedOn(cfg.requiredPIDFull, cfg.enableParticleFull))]_vars

\* C15 witness: a data frame with tracks was processed with three species in the
\* tiny list and two in the full list
C15_Witness ==
  /\ task = "tofPidMerge"
  /\ pc = "done"
  /\ mEnabledParticles = <<kIdxEl, kIdxPi, kIdxAl>>
  /\ mEnabledParticlesFull = <<kIdxPi, kIdxKa>>
  /\ Len(batch.tracks) > 0
  /\ Len(tablePID[kIdxAl]) = Len(batch.tracks)

\* the tofPidMerge batch has been processed
PidEmitted == task = "tofPidMerge" /\ pc = "done"

IsEnabled(id, list) == \E i \in DOMAIN list : list[i] = id

Unassociated == {j \in DOMAIN batch.tracks : batch.tracks[j].collisionId < 0}

RowsOfTrack(table, j) == {k \in DOMAIN table : table[k].trk = j}

\* C2: a track without a collision gets exactly one -999 record in every enabled
\* tiny and full table, and the response model is not evaluated on it
C2_SentinelForUnassociated ==
  PidEmitted =>
    \A j \in Unassociated :
      /\ \A id \in Species :
           /\ IsEnabled(id, mEnabledParticles) =>
                /\ Cardinality(RowsOfTrack(tablePID[id], j)) = 1
                /\ \A k \in RowsOfTrack(tablePID[id], j) :
                     tablePID[id][k].nsigma = <<-999, 1>>
           /\ IsEnabled(id, mEnabledParticlesFull) =>
                /\ Cardinality(RowsOfTrack(tablePIDFull[id], j)) = 1
                /\ \A k \in RowsOfTrack(tablePIDFull[id], j) :
                     /\ tablePIDFull[id][k].nsigma = <<-999, 1>>
                     /\ tablePIDFull[id][k].resolution = <<-999, 1>>
      /\ \A call \in responseCalls : call[1] # j

C2_Witness ==
  /\ PidEmitted
  /\ Unassociated # {}
  /\ Unassociated # DOMAIN batch.tracks
  /\ Len(mEnabledParticles) > 1
  /\ Len(mEnabledParticlesFull) > 1
  /\ responseCalls # {}

\* C3: every enabled species table holds one record per track, in track order,
\* and the table of a species that is not enabled holds none
C3_OneRecordPerTrackInOrder ==
  PidEmitted =>
    \A id \in Species :
      /\ IF IsEnabled(id, mEnabledParticles)
           THEN /\ Len(tablePID[id]) = Len(batch.tracks)
                /\ \A k \in DOMAIN tablePID[id] : tablePID[id][k].trk = k
           ELSE tablePID[id] = <<>>
      /\ IF IsEnabled(id, mEnabledParticlesFull)
           THEN /\ Len(tablePIDFull[id]) = Len(batch.tracks)
                /\ \A k \in DOMAIN tablePIDFull[id] : tablePIDFull[id][k].trk = k
           ELSE tablePIDFull[id] = <<>>

C3_Witness ==
  /\ PidEmitted
  /\ Len(batch.tracks) = MaxTracks
  /\ batch.tracks[1].collisionId = 0
  /\ batch.tracks[2].collisionId < 0
  /\ batch.tracks[MaxTracks].collisionId = 0
  /\ IsEnabled(kIdxEl, mEnabledParticles)
  /\ ~IsEnabled(kIdxEl, mEnabledParticlesFull)
  /\ IsEnabled(kIdxKa, mEnabledParticlesFull)
  /\ ~IsEnabled(kIdxKa, mEnabledParticles)

\* the time (signal - event time - expected time) of a track for a species, in ps
TimeDifference(trk, id) == trk.tofSignal - trk.tofEvTime - GetExpectedSignal(trk, id)

\* the fraction x is num / den
IsQuotient(x, num, den) == x[1] * den[1] = num * x[2] * den[2]

ProcessCalled == pc = "idle" /\ pc' # "idle"

\* the requests this step sends to the CCDB
NewFetches == SubSeq(ccdbFetches', Len(ccdbFetches) + 1, Len(ccdbFetches'))

ParamFetches(fetches) == SelectSeq(fetches, LAMBDA f : f.path = "params")

\* C7: a processSetup call on the run number processed last fetches nothing and
\* leaves the parameters, the stored timestamp and the collision system as they were
C7_SameRunIsNoOp ==
  [][(ProcessCalled /\ batch'.bc.runNumber = mTOFCalibConfig.mLastRunNumber) =>
       /\ ccdbFetches' = ccdbFetches
       /\ mRespParamsV3' = mRespParamsV3
       /\ mTOFCalibConfig'.mTimestamp = mTOFCalibConfig.mTimestamp
       /\ mTOFCalibConfig'.mCollisionSystem = mTOFCalibConfig.mCollisionSystem]_vars

\* a frame of the run in force was processed at another timestamp than the stored
\* one, in a task that fetches on every refresh
C7_Witness ==
  /\ pc = "done"
  /\ cfg.mEnableTimeDependentResponse
  /\ cfg.mParamFileName = ""
  /\ cfg.cfgCollisionSystem = -1
  /\ batch.bc.runNumber = mTOFCalibConfig.mLastRunNumber
  /\ batch.bc.timestamp # mTOFCalibConfig.mTimestamp
  /\ Len(batch.tracks) > 0

\* the parameter fetches of processSetup, in the order they were sent
RunFetches == SelectSeq(ParamFetches(ccdbFetches), LAMBDA f : f.run # 0)

InitSetupCalled == mTOFCalibConfig.mInitMode # 1 /\ mTOFCalibConfig'.mInitMode = 1

\* the parameter collections this step reads the pass from: obj and passes
LoadedNow ==
  {[obj |-> ObjectAt(NewFetches[i].timestamp),
    passes |-> cfg.ccdbPasses[ObjectAt(NewFetches[i].timestamp)]] :
     i \in {k \in DOMAIN NewFetches : NewFetches[k].path = "params"}}
  \cup (IF InitSetupCalled /\ cfg.mParamFileName # ""
          THEN {[obj |-> 0, passes |-> cfg.filePasses]} ELSE {})

PassMissing(coll) == cfg.mReconstructionPass \notin coll.passes

DefaultPresent(coll) == cfg.mReconstructionPassDefault \in coll.passes

\* C9: requested pass missing, fatalOnPassNotAvailable off, default pass present:
\* the resolution and momentum-charge-shift parameters of the default pass are
\* loaded, a warning is emitted and the task does not abort
C9_FallbackToDefaultPass ==
  [][\A coll \in LoadedNow :
       (PassMissing(coll) /\ ~cfg.mFatalOnPassNotAvailable /\ DefaultPresent(coll)) =>
         /\ mRespParamsV3'.reso =
              [obj |-> coll.obj, pass |-> cfg.mReconstructionPassDefault,
               run3 |-> cfg.isRun3]
         /\ mRespParamsV3'.momShift =
              [obj |-> coll.obj, pass |-> cfg.mReconstructionPassDefault]
         /\ warnings' = warnings + 1
         /\ pc' # "fatal"]_vars

\* rows computed with the default pass that processSetup fell back to
C9_Witness ==
  /\ pc = "done"
  /\ warnings > 0
  /\ mRespParamsV3.reso.pass = cfg.mReconstructionPassDefault
  /\ cfg.mEnableTimeDependentResponse
  /\ cfg.mParamFileName = ""
  /\ Len(tablePIDFull[kIdxPi]) > 0

\* C10: with the requested pass missing the resolve is fatal exactly when
\* fatalOnPassNotAvailable is on or the default pass is missing too; the fatal
\* step emits no row, nothing follows it, and the fetch is sent once
C10_FatalOnMissingPass ==
  [][/\ pc # "fatal"
     /\ Len(ParamFetches(NewFetches)) <= 1
     /\ \A coll \in LoadedNow :
          PassMissing(coll) =>
            /\ (pc' = "fatal") <=> (cfg.mFatalOnPassNotAvailable \/ ~DefaultPresent(coll))
            /\ (pc' = "fatal") =>
                 /\ tablePID' = EmptyPidTables
                 /\ tablePIDFull' = EmptyPidTables]_vars

\* the fatal of processSetup after a warning: the default pass is missing too, in
\* the collection of the second run
C10_Witness ==
  /\ pc = "fatal"
  /\ ~cfg.mFatalOnPassNotAvailable
  /\ warnings > 0
  /\ nRefresh = 2
  /\ Len(batch.tracks) > 0

\* the response is time dependent and its parameters come from the CCDB
TimeDependentFromCcdb == cfg.mEnableTimeDependentResponse /\ cfg.mParamFileName = ""

\* the data frame of this step is of another run than the last one processed
RunDiffers == batch'.bc.runNumber # mTOFCalibConfig.mLastRunNumber

\* the timestamp of the data frame of this step lies in another validity interval
\* than the timestamp stored by the last refresh
CrossedValidity == ObjectAt(batch'.bc.timestamp) # ObjectAt(mTOFCalibConfig.mTimestamp)

\* this step fetched the bundle valid at the timestamp of its data frame and,
\* unless the pass selection was fatal, made it the active one
Replaced ==
  /\ Len(ParamFetches(NewFetches)) = 1
  /\ ParamFetches(NewFetches)[1].timestamp = batch'.bc.timestamp
  /\ pc' # "fatal" => mRespParamsV3'.pars.obj = ObjectAt(batch'.bc.timestamp)

\* C16 as stated: with time-dependent response the bundle is replaced when the run
\* number differs and also when, in the same run, the timestamp has crossed the
\* validity boundary of the current bundle
C16_ReplacedOnRunOrValidity ==
  [][(ProcessCalled /\ TimeDependentFromCcdb /\ (RunDiffers \/ CrossedValidity)) =>
       Replaced]_vars

\* C16 amended: with time-dependent response the bundle is replaced exactly when
\* the run number differs from the last one; in the same run it is kept and nothing
\* is fetched, whatever the timestamp
C16_ReplacedOnRunChangeOnly ==
  [][(ProcessCalled /\ TimeDependentFromCcdb) =>
       /\ RunDiffers => Replaced
       /\ ~RunDiffers => (mRespParamsV3' = mRespParamsV3 /\ NewFetches = <<>>)]_vars

\* C16 witness: a data frame of run 2 at timestamp 3 was processed with the bundle
\* fetched at timestamp 2, which is not valid at timestamp 3
C16_Witness ==
  /\ pc = "done"
  /\ TimeDependentFromCcdb
  /\ batch.bc.runNumber = 2
  /\ batch.bc.timestamp = 3
  /\ mTOFCalibConfig.mLastRunNumber = 2
  /\ mTOFCalibConfig.mTimestamp = 2
  /\ mRespParamsV3.pars.obj = ObjectAt(2)
  /\ ObjectAt(2) # ObjectAt(3)
  /\ Len(tablePIDFull[kIdxPi]) > 0

-----------------------------------------------------------------------------
(* Properties of the refresh order and of the beta and mass tables *)

\* the last calibration refresh of the task was for the run of the data frame
RefreshedForBatch == mTOFCalibConfig.mLastRunNumber = batch.bc.runNumber

\* C17: wherever rows that read the calibration parameters have been emitted (the
\* event-time rows of processRun3, the Nsigma rows, the mass rows when
\* enableTOFParamsForBetaMass is on), the calibration refresh had run for the run
\* number of the data frame
C17_RefreshBeforeRows ==
  /\ (task = "tofEventTime" /\ pc = "done" /\ doprocessRun3 /\ Len(tableEvTime) > 0) =>
       RefreshedForBatch
  /\ (/\ task = "tofPidMerge"
      /\ pc \in {"done", "doneBetaM"}
      /\ \E id \in Species : Len(tablePID[id]) > 0 \/ Len(tablePIDFull[id]) > 0) =>
       RefreshedForBatch
  /\ (/\ task = "tofPidMerge"
      /\ pc = "doneBetaM"
      /\ cfg.enableTOFParamsForBetaMass
      /\ Len(tablePIDTOFMass) > 0) =>
       RefreshedForBatch

\* C19: after processRun3BetaM or processRun2BetaM the beta row and the mass row of
\* a track without collision hold the default value
C19_BetaMassSentinelWithoutCollision ==
  (task = "tofPidMerge" /\ pc = "doneBetaM") =>
    \A j \in 1 .. Len(batch.tracks) :
      ~has_collision(batch.tracks[j]) =>
        /\ enableTableBeta => tablePIDBeta[j].beta = <<kNotComputed, 1>>
        /\ enableTableMass => tablePIDTOFMass[j].mass2 = <<kNotComputed, 1>>

\* an output table of the task is requested by the workflow
TableRequired ==
  \/ task = "tofSignal" /\ cfg.requiredTables \cap {"TOFSignal", "pidTOFFlags"} # {}
  \/ task = "tofEventTime" /\ cfg.requiredTables \cap {"TOFEvTime", "EvTimeTOFOnly"} # {}
  \/ /\ task = "tofPidMerge"
     /\ \/ cfg.requiredPID # {}
        \/ cfg.requiredPIDFull # {}
        \/ cfg.requiredTables \cap {"pidTOFbeta", "pidTOFmass"} # {}

\* C18: in each of the three tasks, when init ended without fatal error and an
\* output table of the task is requested, exactly one of processRun2 and
\* processRun3 is enabled
C18_ExactlyOneProcess ==
  (pc \notin {"constructed", "fatal"} /\ TableRequired) => (doprocessRun2 # doprocessRun3)

-----------------------------------------------------------------------------
(* Properties of the validity gate and of the combination with the FT0 *)

\* the gate as the estimate itself passes it: error below the diamond error, and
\* no cutoff configured or the magnitude below the cutoff
WithinGate(est) ==
  /\ RatLess(est.err2, Err2(kErrDiamond))
  /\ \/ cfg.maxEvTimeTOF <= 0
     \/ RatLess(RatAbs(est.time), <<cfg.maxEvTimeTOF, 1>>)

\* the row the TOF+FT0 mode emits when only the FT0 block adds a weight
FT0AloneRow(k) ==
  LET ft0 == FT0Term(Collision(TrackOfRow(k).collisionId))
  IN  IF ft0.weight < kWeightDiamond
        THEN [time |-> <<0, 1>>, err2 |-> Err2(kErrDiamond)]
        ELSE [time |-> Rat(ft0.wtime, ft0.weight), err2 |-> Err2OfWeight(ft0.weight)]

\* C21: in the TOF-only and TOF+FT0 modes a row has the EvTimeTOF flag iff the TOF
\* estimate of its track (after bias removal) has an error below the diamond error
\* and, when maxEvTimeTOF > 0, a magnitude below maxEvTimeTOF; a rejected estimate
\* gives (time 0, diamond error, flags 0) in TOF-only mode and adds no weight in
\* TOF+FT0 mode, whose row is then the one of the FT0 block alone
C21_ValidityGate ==
  (InTOFFT0Mode \/ InTOFMode) =>
    \A k \in Rows :
      ComputedRow(k) =>
        /\ "EvTimeTOF" \in tableFlags[k].flags <=> WithinGate(TOFEstimateOfRow(k))
        /\ (InTOFMode /\ ~WithinGate(TOFEstimateOfRow(k))) =>
             /\ tableEvTime[k].time = <<0, 1>>
             /\ tableEvTime[k].err2 = Err2(kErrDiamond)
             /\ tableFlags[k].flags = {}
        /\ (InTOFFT0Mode /\ ~WithinGate(TOFEstimateOfRow(k))) =>
             /\ tableEvTime[k].time = FT0AloneRow(k).time
             /\ tableEvTime[k].err2 = FT0AloneRow(k).err2
             /\ AccumulatedWeight(tableEvTime[k].trk)
                  = FT0Term(Collision(TrackOfRow(k).collisionId)).weight

\* C21 witness: with a cutoff configured, a row whose estimate has a small error
\* but a magnitude at or above the cutoff, next to a row of an accepted estimate
C21_Witness ==
  /\ InTOFFT0Mode \/ InTOFMode
  /\ cfg.maxEvTimeTOF > 0
  /\ \E k \in Rows : /\ ComputedRow(k)
                     /\ RatLess(TOFEstimateOfRow(k).err2, Err2(kErrDiamond))
                     /\ ~WithinGate(TOFEstimateOfRow(k))
                     /\ "EvTimeTOF" \notin tableFlags[k].flags
  /\ \E k \in Rows : ComputedRow(k) /\ "EvTimeTOF" \in tableFlags[k].flags

\* the row the TOF+FT0 mode emits for the track of row k when the collision has no
\* FT0 at all: only the TOF estimate can add a weight
NoFT0Row(k) ==
  LET tof == TOFTerm(cfg, TOFEstimateOfRow(k))
  IN  IF tof.weight < kWeightDiamond
        THEN [time |-> <<0, 1>>, err2 |-> Err2(kErrDiamond)]
        ELSE [time |-> Rat(tof.wtime, tof.weight), err2 |-> Err2OfWeight(tof.weight)]

\* the collision of the track of row k has an FT0 whose t0AC is not valid
FT0FoundNotValid(k) ==
  /\ Collision(TrackOfRow(k).collisionId).has_foundFT0
  /\ ~Collision(TrackOfRow(k).collisionId).t0ACValid

\* C22: in TOF+FT0 mode the FT0 is combined only when it is found and valid: a
\* track of a collision whose FT0 is found but not valid gets the (time, error) it
\* would get if the collision had no FT0
C22_InvalidFT0AsNoFT0 ==
  InTOFFT0Mode =>
    \A k \in Rows :
      (ComputedRow(k) /\ FT0FoundNotValid(k)) =>
        /\ tableEvTime[k].time = NoFT0Row(k).time
        /\ tableEvTime[k].err2 = NoFT0Row(k).err2

\* the inverse-variance combination of the estimators the flags of row k name: the
\* TOF estimate of the track, the t0AC and t0resolution of its collision
FlaggedCombination(k) ==
  LET est == TOFEstimateOfRow(k)
      coll == Collision(TrackOfRow(k).collisionId)
      wTOF == IF "EvTimeTOF" \in tableFlags[k].flags THEN WeightOfErr2(est.err2) ELSE 0
      wFT0 == IF "EvTimeT0AC" \in tableFlags[k].flags THEN WeightOf(coll.t0resolution)
              ELSE 0
      sum == (est.time[1] * wTOF) \div est.time[2] + coll.t0AC * wFT0
  IN  [time |-> Rat(sum, wTOF + wFT0), err2 |-> Err2OfWeight(wTOF + wFT0)]

\* C23: in every row of processRun3 the flags name the estimators whose weight
\* entered the emitted (time, error): the row of a track with a collision is the
\* combination of exactly the flagged estimators, and with flags 0 it is a default
\* (time 0, diamond error or 999 ps) that no estimator entered
C23_FlagsRecordContributors ==
  (EvTimeEmitted /\ doprocessRun3) =>
    \A k \in Rows :
      /\ tableFlags[k].trk = tableEvTime[k].trk
      /\ IF tableFlags[k].flags = {}
           THEN /\ tableEvTime[k].time = <<0, 1>>
                /\ tableEvTime[k].err2 \in {Err2(kErrDiamond), Err2(kErrNoEvTime)}
         ELSE /\ has_collision(TrackOfRow(k))
              /\ tableEvTime[k].time = FlaggedCombination(k).time
              /\ tableEvTime[k].err2 = FlaggedCombination(k).err2

-----------------------------------------------------------------------------
(* Properties of the per-collision computation *)

\* the tracks of every collision lie next to each other in the data frame
SortedByCollision(tracks) ==
  \A i, j, l \in 1 .. Len(tracks) :
    (i < j /\ j < l /\ has_collision(tracks[i])
       /\ tracks[i].collisionId = tracks[l].collisionId) =>
      tracks[j].collisionId = tracks[i].collisionId

\* how often the TOF event-time maker ran on collision id in this data frame
MakerCallsOn(id) == Cardinality({n \in 1 .. Len(makerCalls) : makerCalls[n] = id})

\* collision id has a track in the data frame and passes the event selection
SelectedWithTracks(id) ==
  \E j \in 1 .. Len(batch.tracks) :
    batch.tracks[j].collisionId = id /\ ~NoCollisionOrNotSel8(cfg, batch.tracks[j])

\* C24: on a data frame sorted by collision, the modes with TOF run the event-time
\* maker once on every collision that has a track and passes the event selection
\* and on no other; the later tracks of a collision add no row, the tables hold
\* one row per track, in the order of the tracks
C24_MakerOncePerCollision ==
  ((InTOFFT0Mode \/ InTOFMode) /\ pc = "done" /\ SortedByCollision(batch.tracks)) =>
    /\ \A id \in CollisionIds :
         MakerCallsOn(id) = IF SelectedWithTracks(id) THEN 1 ELSE 0
    /\ Len(makerCalls) = Cardinality({id \in CollisionIds : SelectedWithTracks(id)})
    /\ Len(tableEvTime) = Len(batch.tracks)
    /\ \A k \in Rows : tableEvTime[k].trk = k /\ tableFlags[k].trk = k

\* C24 witness: a sorted data frame with two tracks of one collision and a track
\* of another one, both collisions computed
C24_Witness ==
  /\ InTOFFT0Mode \/ InTOFMode
  /\ pc = "done"
  /\ SortedByCollision(batch.tracks)
  /\ Len(makerCalls) = 2
  /\ Len(batch.tracks) = 3

-----------------------------------------------------------------------------
(* Properties of the momentum correction of the TOF mass *)

\* the mass table was written with the parameters of the response
MassWithParams ==
  /\ task = "tofPidMerge"
  /\ pc = "doneBetaM"
  /\ enableTableMass
  /\ cfg.enableTOFParamsForBetaMass

\* C25: with enableTOFParamsForBetaMass on, a track whose denominator
\* 1 + sign * shift(eta) is zero is not divided by it: its mass is the default
\* value of the mass, a finite number
C25_ZeroDenominatorGuarded ==
  MassWithParams =>
    \A j \in 1 .. Len(tablePIDTOFMass) :
      ShiftDenominator(mRespParamsV3, batch.tracks[j])[1] = 0 =>
        /\ tablePIDTOFMass[j].mass2 = <<kNotComputed, 1>>
        /\ tablePIDTOFMass[j].mass2 \notin {Infinity, NaN}

-----------------------------------------------------------------------------
(* Properties of the sel8 selection *)

\* the track of row k has a collision that fails sel8
FailsSel8(k) ==
  /\ has_collision(TrackOfRow(k))
  /\ ~Collision(TrackOfRow(k).collisionId).sel8

\* C26: with sel8TOFEvTime on, in each of the three modes of processRun3 the row
\* of a track whose collision fails sel8 is the row without estimate (flags 0,
\* time 0, error 999 ps): neither the TOF estimate nor the t0AC of that collision
\* is emitted
C26_Sel8InEveryMode ==
  (EvTimeEmitted /\ doprocessRun3 /\ cfg.sel8TOFEvTime) =>
    \A k \in Rows :
      FailsSel8(k) =>
        /\ tableFlags[k].flags = {}
        /\ tableEvTime[k].time = <<0, 1>>
        /\ tableEvTime[k].err2 = Err2(kErrNoEvTime)

-----------------------------------------------------------------------------
(* Properties of the autodetection of tofSignal *)

\* tofSignal::init ran with the autodetection on, complete metadata, a required
\* table and no process function switched on in the configuration
SignalAutodetected ==
  /\ task = "tofSignal"
  /\ pc # "constructed"
  /\ cfg.mAutoSetProcessFunctions
  /\ cfg.isFullyDefined
  /\ cfg.requiredTables \cap {"TOFSignal", "pidTOFFlags"} # {}
  /\ ~cfg.processRun2
  /\ ~cfg.processRun3

\* C27: after such an init of tofSignal the process function of the metadata is
\* the one enabled (processRun3 on Run 3 data, processRun2 otherwise) and init did
\* not end in a fatal error
C27_SignalAutodetectEnablesOne ==
  SignalAutodetected =>
    /\ pc # "fatal"
    /\ doprocessRun3 = cfg.isRun3
    /\ doprocessRun2 = ~cfg.isRun3

-----------------------------------------------------------------------------
(* Properties of processSetup without time-dependent response *)

\* C28: with the time-dependent response off, a data frame leaves the parameters
\* of the response (resolution, momentum-charge shift, time shifts) as they were
\* and asks the CCDB for none of them; of the calibration configuration only the
\* last run number, the stored timestamp and, when it was -1, the collision system
\* change
C28_ParametersFrozenWithoutTimeDependence ==
  [][(ProcessCalled /\ ~cfg.mEnableTimeDependentResponse) =>
       /\ mRespParamsV3' = mRespParamsV3
       /\ \A i \in DOMAIN NewFetches : NewFetches[i].path = "grplhcif"
       /\ mTOFCalibConfig' =
            [mTOFCalibConfig EXCEPT
               !.mLastRunNumber = mTOFCalibConfig'.mLastRunNumber,
               !.mTimestamp = mTOFCalibConfig'.mTimestamp,
               !.mCollisionSystem = IF @ = -1 THEN mTOFCalibConfig'.mCollisionSystem
                                    ELSE @]]_vars

\* C28 witness: with the time-dependent response off, the second run was reached
\* at a timestamp for which the CCDB holds another object than the one in use
C28_Witness ==
  /\ task = "tofPidMerge"
  /\ ~cfg.mEnableTimeDependentResponse
  /\ cfg.mParamFileName = ""
  /\ pc = "done"
  /\ nRefresh >= 2
  /\ mTOFCalibConfig.mLastRunNumber = 2
  /\ mTOFCalibConfig.mTimestamp = 3
  /\ mRespParamsV3.reso.obj # ObjectAt(mTOFCalibConfig.mTimestamp)

-----------------------------------------------------------------------------
(* Properties of the lengths of the event-time tables *)

RECURSIVE LoopStateAfter(_)
\* the tables and locals of processRun3 after the first n passes of its track
\* loop on the data frame in `batch`, in the mode in use
LoopStateAfter(n) ==
  IF n = 0 THEN LoopStart
  ELSE IF mComputeEvTimeWithTOF = 1
    THEN EvTimeTOFLoop(mComputeEvTimeWithFT0 = 1, batch.tracks, n, LoopStateAfter(n - 1))
  ELSE EvTimeFT0Loop(batch.tracks, n, LoopStateAfter(n - 1))

-----------------------------------------------------------------------------
(* Properties of the emitted error *)

====
